---- MODULE Spec2Model ----
(***************************************************************************)
(* Verification model of the web_llm_interactor automation engine:         *)
(*   - the response stability monitors (capture_response in                *)
(*     claude_interface.py, monitorResponseCompletion in the injected      *)
(*     page script of applescript_spoof copy.py),                          *)
(*   - the element localizer and the challenge detector                    *)
(*     (vision_detection.py, qwen_processor.py),                           *)
(*   - the query loop of the orchestrators (vision_main.py, main.py,       *)
(*     site.py).                                                           *)
(* Texts are sequences of one-character strings so that lengths, period    *)
(* counts, substring tests and parsing are computed, not assumed.          *)
(***************************************************************************)
EXTENDS Integers, Sequences, FiniteSets, TLC

VARIABLES
  \* ---- response stability monitor ----
  impl,               \* "py" = capture_response, "js" = monitorResponseCompletion
  readerKind,         \* behaviour of the injected reader: constant/changing/scripted/arbitrary
  constText,          \* the text a constant reader returns
  scriptPos,          \* next index into Script for a scripted reader
  polling_interval,   \* capture_response(polling_interval)
  max_wait_time,      \* capture_response(max_wait_time)
  now,                \* time.time() - start_time, whole seconds
  last_content,       \* capture_response local; None before the first text
  last_content_time,  \* capture_response local; NoTime for None
  polls,              \* number of polls (loop iterations / interval ticks) so far
  outcome,            \* "Polling", "Stable", "TimedOut"
  returned,           \* the text handed back to the caller
  prevText,           \* (history) the previous text actually read
  equalRun,           \* (history) consecutive text reads identical to prevText
  seenUsable,         \* (history) some text longer than MIN_USABLE_LEN was read
  lastContent,        \* monitorResponseCompletion local
  lastDotCount,       \* monitorResponseCompletion local
  stableCount,        \* monitorResponseCompletion local
  mpc,                \* monitor control: "idle", "start", "polling", "done"
  \* ---- element localizer and challenge detector ----
  response,           \* the text the inference model answers with
  elements,           \* element_descriptions handed to detect_elements
  v_model,            \* VisionDetector.model: "none" or "loaded"
  q_loaded,           \* QwenVLProcessor._model_loaded
  dcalls,             \* number of detector calls made
  lastCall,           \* what the last detector call was and what it gave back
  \* ---- query loop of the orchestrators ----
  runner,             \* "run_automation" or "chat_with_random_delay"
  nq,                 \* len(queries)
  qi,                 \* the loop index i (0-based)
  opc,                \* position in the loop
  wait_elapsed,       \* time.time() - start_time while wait_for_captcha_solution runs
  inputs,             \* per query: the kinds of synthetic input delivered
  records,            \* per query: what reached save_response / responses
  printed,            \* per query: the message printed or logged about it
  waitExit,           \* per query: how the challenge wait ended
  lastDelay,          \* the last inter-query delay slept
  \* ---- ask_llm (claude_interface.py) ----
  apc,                \* position in ask_llm: "idle", "start", "send", "capturing", "done"
  attempt,            \* the loop index of the send loop
  send_runs,          \* (history) runs of the send script so far
  ask_result,         \* the value ask_llm returns
  ask_saved,          \* the response written to ./responses, None when nothing was written
  \* ---- extract_json_from_html.py ----
  xpc,                \* position in extract_json_from_html and main
  required_fields,    \* the list of required field names
  json_objects,       \* the list extract_json_from_html builds
  all_flag,           \* main(all)
  stdout_json,        \* what main prints, None before it prints
  ncand,              \* candidate texts handed to clean_json_string so far
  \* ---- pointer motion (human_input.py, human_simulation.py) ----
  mover,              \* "HumanInput" or "HumanSimulation": whose move_mouse runs
  humanize,           \* move_mouse(humanize) of HumanInput
  ptr,                \* pyautogui.position(): where the pointer is
  mv_from,            \* (current_x, current_y) / (start_x, start_y) read when the move began
  mv_to,              \* the target (x, y)
  mv_pc,              \* position in move_mouse: "idle", "curve", "final", "tail", "back", "done"
  mv_points,          \* the points list: start, control points, end
  mv_i,               \* the loop index i
  mv_ticks,           \* elapsed at the last iteration, in steps of duration / steps
  mv_n,               \* pointer commands issued by this move
  mv_dur,             \* duration argument of the last pointer command, milliseconds
  \* ---- typing (human_input.py, human_simulation.py) ----
  typer,              \* "HumanInput" or "HumanSimulation": whose type_text runs
  ty_text,            \* type_text(text)
  simulate_typos,     \* type_text(simulate_typos) / type_text(error_correction)
  ty_i,               \* the loop index i
  field,              \* the content of the field the key actions go to
  ty_typos,           \* (history) the typo types made so far
  ty_last,            \* (history) the typo type of the last iteration, 0 for none
  ty_pc,              \* position in type_text: "idle", "typing", "done"
  \* ---- QwenVLProcessor singleton (qwen_processor.py) ----
  qw_instance,        \* QwenVLProcessor._instance: 0 for None, else the number of the object
  qw_objects,         \* objects made by super().__new__ so far
  qw_refs,            \* the objects the constructions returned
  qw_model_loaded,    \* self._model_loaded of the instance
  qw_loads,           \* times the model and tokenizer were loaded with from_pretrained
  qw_constructs,      \* constructions so far
  qw_calls,           \* calls that reached _process_with_model so far
  qw_last,            \* the last operation
  \* ---- the ask command (cli.py) ----
  max_attempts,       \* --max-attempts
  c_attempt,          \* the loop index attempt
  cpc,                \* position in ask: "idle", "loop", "done"
  exit_code,          \* exit status of the command, -1 while it runs
  c_runs,             \* runs of the script so far
  c_echo,             \* the result printed with typer.echo(output), None when none was
  c_slept,            \* seconds slept between attempts
  c_msgs,             \* the message printed by each attempt, in order
  \* ---- the site handlers (ui_automation.py, site_vision.py) ----
  h_class,            \* "UIChatAutomation" or "VisionAIChatSite"
  site_name,          \* self.site_name / get_site_id()
  use_vision,         \* self.use_vision (the vision object exists exactly when it is set)
  input_center,       \* ui_elements["input_field"]["center"] / input_field_pos
  send_center,        \* ui_elements["send_button"]["center"] / send_button_pos
  h_pc,               \* "ready"; in send_message "located", "clicked", "typed"; "sent" or "aborted"; in get_response "waiting", "extracting"; "returned"
  h_acts,             \* what the input simulator was asked to do, in order
  h_detect,           \* (history) the localizer in the last operation: "none", "found", "failed"
  h_before,           \* (history) the input-field location before the last operation
  h_ops,              \* operations so far
  \* ---- get_response of the site handlers ----
  g_generating,       \* (history) whether the site was generating at the last check of the wait loop
  g_elapsed,          \* seconds since wait_start
  g_result            \* where the returned text came from, "none" before the return

monVars ==
  <<impl, readerKind, constText, scriptPos, polling_interval, max_wait_time,
    now, last_content, last_content_time, polls, outcome, returned,
    prevText, equalRun, seenUsable, lastContent, lastDotCount, stableCount, mpc>>

detVars ==
  <<response, elements, v_model, q_loaded, dcalls, lastCall>>

runVars ==
  <<runner, nq, qi, opc, wait_elapsed, inputs, records, printed, waitExit, lastDelay>>

askVars ==
  <<apc, attempt, send_runs, ask_result, ask_saved>>

extVars ==
  <<xpc, required_fields, json_objects, all_flag, stdout_json, ncand>>

moveVars ==
  <<mover, humanize, ptr, mv_from, mv_to, mv_pc, mv_points, mv_i, mv_ticks, mv_n, mv_dur>>

typeVars ==
  <<typer, ty_text, simulate_typos, ty_i, field, ty_typos, ty_last, ty_pc>>

qwVars ==
  <<qw_instance, qw_objects, qw_refs, qw_model_loaded, qw_loads, qw_constructs, qw_calls, qw_last>>

cliVars ==
  <<max_attempts, c_attempt, cpc, exit_code, c_runs, c_echo, c_slept, c_msgs>>

siteVars ==
  <<h_class, site_name, use_vision, input_center, send_center, h_pc, h_acts, h_detect, h_before, h_ops>>

respVars ==
  <<g_generating, g_elapsed, g_result>>

vars ==
  <<monVars, detVars, runVars, askVars, extVars, moveVars, typeVars, qwVars, cliVars, siteVars, respVars>>

\* what the operations of one part leave alone
outsideMon ==
  <<detVars, runVars, askVars, extVars, moveVars, typeVars, qwVars, cliVars, siteVars, respVars>>

outsideDet ==
  <<monVars, runVars, askVars, extVars, moveVars, typeVars, qwVars, cliVars, siteVars, respVars>>

outsideRun ==
  <<monVars, detVars, askVars, extVars, moveVars, typeVars, qwVars, cliVars, siteVars, respVars>>

outsideAsk ==
  <<detVars, runVars, extVars, moveVars, typeVars, qwVars, cliVars, siteVars, respVars>>

outsideExt ==
  <<monVars, detVars, runVars, askVars, moveVars, typeVars, qwVars, cliVars, siteVars, respVars>>

outsideMove ==
  <<monVars, detVars, runVars, askVars, extVars, typeVars, qwVars, cliVars, siteVars, respVars>>

outsideType ==
  <<monVars, detVars, runVars, askVars, extVars, moveVars, qwVars, cliVars, siteVars, respVars>>

outsideQw ==
  <<monVars, detVars, runVars, askVars, extVars, moveVars, typeVars, cliVars, siteVars, respVars>>

outsideCli ==
  <<monVars, detVars, runVars, askVars, extVars, moveVars, typeVars, qwVars, siteVars, respVars>>

outsideSite ==
  <<monVars, detVars, runVars, askVars, extVars, moveVars, typeVars, qwVars, cliVars, respVars>>

outsideResp ==
  <<monVars, detVars, runVars, askVars, extVars, moveVars, typeVars, qwVars, cliVars>>

(***************************************************************************)
(* Texts                                                                   *)
(***************************************************************************)
None ==
  <<"None">>

NoElement ==
  <<"NoElement">>

Raise ==
  <<"raise">>

NoTime ==
  0 - 1

Empty ==
  <<>>

STILL_GENERATING ==
  <<"_", "_", "S", "T", "I", "L", "L", "_", "G", "E", "N", "E", "R", "A", "T", "I", "N", "G", "_", "_">>

Paris ==
  <<"P", "a", "r", "i", "s">>

PhoenixText ==
  <<"T", "h", "e", " ", "c", "a", "p", "i", "t", "a", "l", " ", "o", "f", " ", "A", "r", "i", "z", "o", "n", "a", " ", "i", "s", " ", "P", "h", "o", "e", "n", "i", "x", ".">>

LongA ==
  <<"T", "h", "e", " ", "c", "a", "p", "i", "t", "a", "l", " ", "o", "f", " ", "F", "r", "a", "n", "c", "e", " ", "i", "s", " ", "P", "a", "r", "i", "s", ",", " ", "a", " ", "c", "i", "t", "y", " ", "o", "n", " ", "t", "h", "e", " ", "S", "e", "i", "n", "e", ".">>

LongA2 ==
  <<"T", "h", "e", " ", "c", "a", "p", "i", "t", "a", "l", " ", "o", "f", " ", "F", "r", "a", "n", "c", "e", " ", "i", "s", " ", "P", "a", "r", "i", "s", ",", " ", "a", " ", "t", "o", "w", "n", " ", "o", "n", " ", "t", "h", "e", " ", "S", "e", "i", "n", "e", ".">>

LongB ==
  <<"T", "h", "i", "n", "k", "i", "n", "g", " ", "a", "b", "o", "u", "t", " ", "i", "t", ".", ".", ".", " ", "t", "h", "e", " ", "c", "a", "p", "i", "t", "a", "l", " ", "o", "f", " ", "A", "r", "i", "z", "o", "n", "a", " ", "i", "s", " ", "P", "h", "o", "e", "n", "i", "x", "!">>

ErrorText ==
  <<"E", "r", "r", "o", "r", ":", " ", "F", "a", "i", "l", "e", "d", " ", "t", "o", " ", "c", "a", "p", "t", "u", "r", "e", " ", "a", " ", "c", "o", "m", "p", "l", "e", "t", "e", " ", "r", "e", "s", "p", "o", "n", "s", "e", " ", "w", "i", "t", "h", "i", "n", " ", "t", "h", "e", " ", "t", "i", "m", "e", " ", "l", "i", "m", "i", "t">>

\* the texts a page can show
Texts ==
  {Empty, Paris, PhoenixText, LongA, LongA2, LongB}

\* texts of a reader that never shows the same text twice in a row
ChangingTexts ==
  {LongA, LongA2, LongB}

\* the read sequence of the end-to-end scenario
Script ==
  <<STILL_GENERATING, STILL_GENERATING, Paris, Paris, Paris>>

(***************************************************************************)
(* Bounds of the model                                                     *)
(***************************************************************************)
\* max_wait_time handed to capture_response (the default of 45 s is scaled down)
MaxWaitTime ==
  12

\* longest time one osascript read takes, in seconds
MaxCost ==
  1

\* interval ticks of monitorResponseCompletion that are explored
MaxTicks ==
  6

(***************************************************************************)
(* Program constants of the monitors                                       *)
(***************************************************************************)
\* capture_response: "5 seconds of stability"
STABLE_SECONDS ==
  5

\* capture_response: len(response_text) > 50 before a stable text is returned
MIN_STABLE_LEN ==
  50

\* capture_response: len(last_content) > 20 for a text returned at the timeout
MIN_USABLE_LEN ==
  20

\* capture_response(max_retries=3)
max_retries ==
  3

\* monitorResponseCompletion: stableCount >= 3
JS_STABLE_CHECKS ==
  3

\* monitorResponseCompletion: currentContent.length > 20 in the sentence-end test
JS_MIN_LEN ==
  20

\* polling intervals explored: 0 (test mode), 2 (cli default), 5 (capture_response default)
PollIntervals ==
  {0, 2, 5}

(***************************************************************************)
(* Text helpers                                                            *)
(***************************************************************************)
IsSpace(c) ==
  c \in {" ", "\n", "\t"}

RECURSIVE LStrip(_)
LStrip(s) ==
  IF s # <<>> /\ IsSpace(Head(s)) THEN LStrip(Tail(s)) ELSE s

RECURSIVE RStrip(_)
RStrip(s) ==
  IF s # <<>> /\ IsSpace(s[Len(s)]) THEN RStrip(SubSeq(s, 1, Len(s) - 1)) ELSE s

\* str.strip()
Strip(s) ==
  RStrip(LStrip(s))

\* (content.match(/\./g) || []).length
DotCount(s) ==
  Cardinality({i \in 1..Len(s) : s[i] = "."})

\* /[.!?]\s*$/.test(content)
EndsWithPunctuation(s) ==
  \E i \in 1..Len(s) :
    /\ s[i] \in {".", "!", "?"}
    /\ \A j \in (i + 1)..Len(s) : IsSpace(s[j])

\* what osascript prints for a page text: the text and a newline
Stdout(t) ==
  t \o <<"\n">>

(***************************************************************************)
(* The injected reader                                                     *)
(***************************************************************************)
\* results one read of the page can have for capture_response
PyReads ==
  CASE readerKind = "constant" -> {constText}
    [] readerKind = "changing" -> ChangingTexts \ {last_content}
    [] readerKind = "scripted" ->
         IF scriptPos <= Len(Script) THEN {Script[scriptPos]}
         ELSE {Script[Len(Script)], Raise}
    [] readerKind = "after2" ->
         IF polls < 2 THEN {Empty, STILL_GENERATING} ELSE {constText}
    [] OTHER -> Texts \cup {STILL_GENERATING, Raise}

\* results of findLatestAssistantResponse() and its innerText
JsReads ==
  CASE readerKind = "constant" -> {constText}
    [] readerKind = "changing" -> ChangingTexts \ {prevText}
    [] OTHER -> Texts \cup {NoElement}

\* history: the run of identical texts after reading text t
RunAfter(t) ==
  IF t = prevText THEN equalRun + 1 ELSE 1

(***************************************************************************)
(* capture_response (claude_interface.py)                                  *)
(***************************************************************************)
\* mutation: the loop gives up when the next sleep would pass the deadline
PyLoopRuns_early(elapsed) ==
  elapsed + polling_interval < max_wait_time

\* mutation: a loop without a deadline
PyLoopRuns_forever(elapsed) ==
  elapsed >= 0

\* the loop condition of line 259 (start_time is time 0)
PyLoopRuns(elapsed) ==
  elapsed < max_wait_time

\* mutation: a window of exactly STABLE_SECONDS does not count yet
PyIsStable_strict(duration, text) ==
  duration > STABLE_SECONDS /\ Len(text) > MIN_STABLE_LEN

\* the stability test of line 288
PyIsStable(duration, text) ==
  duration >= STABLE_SECONDS /\ Len(text) > MIN_STABLE_LEN

\* mutation: the timeout result uses the stability minimum instead of the usable one
PyTimeoutResult_stablemin(content) ==
  IF content # None /\ content # Empty /\ Len(content) > MIN_STABLE_LEN
  THEN content ELSE ErrorText

\* the return value after the loop, lines 305-309
PyTimeoutResult(content) ==
  IF content # None /\ content # Empty /\ Len(content) > MIN_USABLE_LEN
  THEN content ELSE ErrorText

\* one iteration of the polling loop, lines 259-302
PyPoll(r, nFail, cost) ==
  /\ impl = "py" /\ mpc = "polling"
  /\ PyLoopRuns(now)
  /\ r \in PyReads
  /\ polls' = polls + 1
  /\ UNCHANGED outsideMon
  /\ scriptPos' = IF readerKind = "scripted" /\ scriptPos <= Len(Script)
                  THEN scriptPos + 1 ELSE scriptPos
  /\ UNCHANGED <<impl, readerKind, constText, polling_interval, max_wait_time,
                 lastContent, lastDotCount, stableCount>>
  /\ IF r = Raise
     THEN \* every attempt failed: max_retries - 1 sleeps of 1 s, then the handler sleeps
          /\ now' = now + cost + (max_retries - 1) + polling_interval
          /\ UNCHANGED <<last_content, last_content_time, outcome, returned,
                         prevText, equalRun, seenUsable, mpc>>
     ELSE LET t == now + cost + nFail
              response_text == Strip(Stdout(r))
          IN  IF response_text = STILL_GENERATING
              THEN /\ now' = t + polling_interval
                   /\ UNCHANGED <<last_content, last_content_time, outcome, returned,
                                  prevText, equalRun, seenUsable, mpc>>
              ELSE /\ prevText' = response_text
                   /\ equalRun' = RunAfter(response_text)
                   /\ seenUsable' = (seenUsable \/ Len(response_text) > MIN_USABLE_LEN)
                   /\ IF response_text = last_content
                      THEN LET since == IF last_content_time = NoTime THEN t
                                        ELSE last_content_time
                           IN  /\ last_content_time' = since
                               /\ UNCHANGED last_content
                               /\ IF PyIsStable(t - since, response_text)
                                  THEN /\ outcome' = "Stable"
                                       /\ returned' = response_text
                                       /\ mpc' = "done"
                                       /\ now' = t
                                  ELSE /\ now' = t + polling_interval
                                       /\ UNCHANGED <<outcome, returned, mpc>>
                      ELSE /\ last_content' = response_text
                           /\ last_content_time' = t
                           /\ now' = t + polling_interval
                           /\ UNCHANGED <<outcome, returned, mpc>>

\* the loop condition fails: lines 304-309
PyTimeout ==
  /\ impl = "py" /\ mpc = "polling"
  /\ ~PyLoopRuns(now)
  /\ UNCHANGED outsideMon
  /\ outcome' = "TimedOut"
  /\ returned' = PyTimeoutResult(last_content)
  /\ mpc' = "done"
  /\ UNCHANGED <<impl, readerKind, constText, scriptPos, polling_interval,
                 max_wait_time, now, last_content, last_content_time, polls,
                 prevText, equalRun, seenUsable, lastContent, lastDotCount,
                 stableCount>>

(***************************************************************************)
(* monitorResponseCompletion (applescript_spoof copy.py, page script)      *)
(***************************************************************************)
\* the test of lines 203-208
JsLooksStable(cur, last, lastDots) ==
  \/ Len(cur) = Len(last) /\ DotCount(cur) = lastDots
  \/ EndsWithPunctuation(cur) /\ Len(cur) > JS_MIN_LEN /\ DotCount(cur) = lastDots

\* lines 185-189: the first look at the page
JsStart(e) ==
  /\ impl = "js" /\ mpc = "start"
  /\ e \in JsReads
  /\ UNCHANGED outsideMon
  /\ lastContent' = IF e = NoElement THEN Empty ELSE e
  /\ lastDotCount' = IF e = NoElement THEN 0 ELSE DotCount(e)
  /\ stableCount' = 0
  /\ prevText' = IF e = NoElement THEN prevText ELSE e
  /\ equalRun' = IF e = NoElement THEN equalRun ELSE 1
  /\ mpc' = "polling"
  /\ UNCHANGED <<impl, readerKind, constText, scriptPos, polling_interval,
                 max_wait_time, now, last_content, last_content_time, polls,
                 outcome, returned, seenUsable>>

\* lines 191-263: one run of the interval callback
JsTick(e) ==
  /\ impl = "js" /\ mpc = "polling"
  /\ polls < MaxTicks
  /\ e \in JsReads
  /\ UNCHANGED outsideMon
  /\ polls' = polls + 1
  /\ now' = now + 1
  /\ UNCHANGED <<impl, readerKind, constText, scriptPos, polling_interval,
                 max_wait_time, last_content, last_content_time, seenUsable>>
  /\ IF e = NoElement
     THEN UNCHANGED <<lastContent, lastDotCount, stableCount, prevText, equalRun,
                      outcome, returned, mpc>>
     ELSE /\ prevText' = e
          /\ equalRun' = RunAfter(e)
          /\ IF JsLooksStable(e, lastContent, lastDotCount)
             THEN /\ stableCount' = stableCount + 1
                  /\ UNCHANGED <<lastContent, lastDotCount>>
                  /\ IF stableCount + 1 >= JS_STABLE_CHECKS
                     THEN /\ outcome' = "Stable"
                          /\ returned' = e
                          /\ mpc' = "done"
                     ELSE UNCHANGED <<outcome, returned, mpc>>
             ELSE /\ lastContent' = e
                  /\ lastDotCount' = DotCount(e)
                  /\ stableCount' = 0
                  /\ UNCHANGED <<outcome, returned, mpc>>

(***************************************************************************)
(* Text search and JSON reading used by the localizer and the detector     *)
(***************************************************************************)
UpperCase ==
  <<"A", "B", "C", "D", "E", "F", "G", "H", "I", "J", "K", "L", "M",
    "N", "O", "P", "Q", "R", "S", "T", "U", "V", "W", "X", "Y", "Z">>

LowerCase ==
  <<"a", "b", "c", "d", "e", "f", "g", "h", "i", "j", "k", "l", "m",
    "n", "o", "p", "q", "r", "s", "t", "u", "v", "w", "x", "y", "z">>

LowerChar(c) ==
  IF \E i \in 1..26 : UpperCase[i] = c
  THEN LowerCase[CHOOSE i \in 1..26 : UpperCase[i] = c]
  ELSE c

\* str.lower()
Lower(s) ==
  [i \in 1..Len(s) |-> LowerChar(s[i])]

\* s[a:b] with 0-based a, b as in Python slicing
Slice(s, a, b) ==
  SubSeq(s, a + 1, IF b > Len(s) THEN Len(s) ELSE b)

\* positions (1-based) at which sub occurs in s
Occurrences(sub, s) ==
  {p \in 1..(Len(s) - Len(sub) + 1) : SubSeq(s, p, p + Len(sub) - 1) = sub}

\* sub in s
Contains(sub, s) ==
  Occurrences(sub, s) # {}

Min(S) ==
  CHOOSE x \in S : \A y \in S : x <= y

Max(S) ==
  CHOOSE x \in S : \A y \in S : x >= y

\* str.find(sub): 0-based index of the first occurrence, or -1
Find(sub, s) ==
  IF Contains(sub, s) THEN Min(Occurrences(sub, s)) - 1 ELSE 0 - 1

\* str.rfind(sub): 0-based index of the last occurrence, or -1
RFind(sub, s) ==
  IF Contains(sub, s) THEN Max(Occurrences(sub, s)) - 1 ELSE 0 - 1

Digits ==
  <<"0", "1", "2", "3", "4", "5", "6", "7", "8", "9">>

IsDigit(c) ==
  \E i \in 1..10 : Digits[i] = c

DigitVal(c) ==
  (CHOOSE i \in 1..10 : Digits[i] = c) - 1

\* first position >= i that holds no white space (Len(s) + 1 at the end)
SkipWs(s, i) ==
  Min({j \in i..(Len(s) + 1) : j > Len(s) \/ ~IsSpace(s[j])})

\* first position >= i that holds no digit
SkipDigits(s, i) ==
  Min({j \in i..(Len(s) + 1) : j > Len(s) \/ ~IsDigit(s[j])})

RECURSIVE ToInt(_)
\* int(digits)
ToInt(ds) ==
  IF ds = <<>> THEN 0
  ELSE 10 * ToInt(SubSeq(ds, 1, Len(ds) - 1)) + DigitVal(ds[Len(ds)])

JNull ==
  [t |-> "null"]

JFail ==
  [ok |-> FALSE, val |-> JNull, next |-> 0]

JOk(v, n) ==
  [ok |-> TRUE, val |-> v, next |-> n]

\* s holds the word w at position i
HasWord(s, i, w) ==
  i + Len(w) - 1 <= Len(s) /\ SubSeq(s, i, i + Len(w) - 1) = w

\* a JSON string without escapes, the opening quote at position i
ParseString(s, i) ==
  LET close == {j \in (i + 1)..Len(s) : s[j] = "\""}
  IN  IF i > Len(s) \/ s[i] # "\"" \/ close = {} THEN JFail
      ELSE JOk([t |-> "str", s |-> SubSeq(s, i + 1, Min(close) - 1)], Min(close) + 1)

\* a non-negative JSON integer at position i
ParseNumber(s, i) ==
  LET j == SkipDigits(s, i)
  IN  IF j = i THEN JFail
      ELSE JOk([t |-> "num", n |-> ToInt(SubSeq(s, i, j - 1))], j)

RECURSIVE ParseValue(_, _)
RECURSIVE ParseMembers(_, _, _)
RECURSIVE ParseItems(_, _, _)

\* the members of an object after "{" or ",": string ":" value, then "," or "}"
ParseMembers(s, i, acc) ==
  LET k == ParseString(s, SkipWs(s, i))
      c == SkipWs(s, k.next)
      v == ParseValue(s, c + 1)
      e == SkipWs(s, v.next)
      acc2 == Append(acc, [k |-> k.val.s, v |-> v.val])
  IN  IF ~k.ok \/ c > Len(s) \/ s[c] # ":" THEN JFail
      ELSE IF ~v.ok \/ e > Len(s) THEN JFail
      ELSE IF s[e] = "," THEN ParseMembers(s, e + 1, acc2)
      ELSE IF s[e] = "}" THEN JOk([t |-> "obj", kv |-> acc2], e + 1)
      ELSE JFail

\* the items of an array after "[" or ",": value, then "," or "]"
ParseItems(s, i, acc) ==
  LET v == ParseValue(s, i)
      e == SkipWs(s, v.next)
      acc2 == Append(acc, v.val)
  IN  IF ~v.ok \/ e > Len(s) THEN JFail
      ELSE IF s[e] = "," THEN ParseItems(s, e + 1, acc2)
      ELSE IF s[e] = "]" THEN JOk([t |-> "arr", items |-> acc2], e + 1)
      ELSE JFail

\* one JSON value starting at or after position i
ParseValue(s, i) ==
  LET p == SkipWs(s, i)
  IN  IF p > Len(s) THEN JFail
      ELSE IF s[p] = "{" THEN
             IF SkipWs(s, p + 1) <= Len(s) /\ s[SkipWs(s, p + 1)] = "}"
             THEN JOk([t |-> "obj", kv |-> <<>>], SkipWs(s, p + 1) + 1)
             ELSE ParseMembers(s, p + 1, <<>>)
      ELSE IF s[p] = "[" THEN
             IF SkipWs(s, p + 1) <= Len(s) /\ s[SkipWs(s, p + 1)] = "]"
             THEN JOk([t |-> "arr", items |-> <<>>], SkipWs(s, p + 1) + 1)
             ELSE ParseItems(s, p + 1, <<>>)
      ELSE IF s[p] = "\"" THEN ParseString(s, p)
      ELSE IF IsDigit(s[p]) THEN ParseNumber(s, p)
      ELSE IF HasWord(s, p, <<"t", "r", "u", "e">>) THEN JOk([t |-> "true"], p + 4)
      ELSE IF HasWord(s, p, <<"f", "a", "l", "s", "e">>) THEN JOk([t |-> "false"], p + 5)
      ELSE IF HasWord(s, p, <<"n", "u", "l", "l">>) THEN JOk(JNull, p + 4)
      ELSE JFail

\* json.loads(s): ok is FALSE where json.loads raises JSONDecodeError
JsonLoads(s) ==
  LET r == ParseValue(s, 1)
  IN  IF r.ok /\ SkipWs(s, r.next) > Len(s) THEN r ELSE JFail

\* key in d, for a parsed object d
HasKey(d, key) ==
  \E i \in 1..Len(d.kv) : d.kv[i].k = key

\* d[key]: the last member of that name
Lookup(d, key) ==
  d.kv[Max({i \in 1..Len(d.kv) : d.kv[i].k = key})].v

\* d.get(key, default)
Get(d, key, default) ==
  IF HasKey(d, key) THEN Lookup(d, key) ELSE default

\* truth value of a parsed JSON value in an if
Truthy(v) ==
  CASE v.t = "true" -> TRUE
    [] v.t = "num" -> v.n # 0
    [] v.t = "str" -> v.s # <<>>
    [] v.t = "arr" -> v.items # <<>>
    [] v.t = "obj" -> v.kv # <<>>
    [] OTHER -> FALSE

(***************************************************************************)
(* Element localizer and challenge detector                                *)
(* (vision_detection.py: VisionDetector, qwen_processor.py: QwenVLProcessor)*)
(***************************************************************************)
\* detector calls explored in one behaviour
MaxCalls ==
  2

InputField ==
  <<"i", "n", "p", "u", "t", " ", "f", "i", "e", "l", "d">>

SendButton ==
  <<"s", "e", "n", "d", " ", "b", "u", "t", "t", "o", "n">>

K_found ==
  <<"f", "o", "u", "n", "d">>

K_coordinates ==
  <<"c", "o", "o", "r", "d", "i", "n", "a", "t", "e", "s">>

K_input_field ==
  <<"i", "n", "p", "u", "t", "_", "f", "i", "e", "l", "d">>

K_send_button ==
  <<"s", "e", "n", "d", "_", "b", "u", "t", "t", "o", "n">>

K_response_area ==
  <<"r", "e", "s", "p", "o", "n", "s", "e", "_", "a", "r", "e", "a">>

K_center ==
  <<"c", "e", "n", "t", "e", "r">>

K_box ==
  <<"b", "o", "x">>

K_captcha_detected ==
  <<"c", "a", "p", "t", "c", "h", "a", "_", "d", "e", "t", "e", "c", "t", "e", "d">>

W_yes ==
  <<"y", "e", "s">>

W_captcha ==
  <<"c", "a", "p", "t", "c", "h", "a">>

W_verification ==
  <<"v", "e", "r", "i", "f", "i", "c", "a", "t", "i", "o", "n">>

W_robot ==
  <<"r", "o", "b", "o", "t">>

W_human ==
  <<"h", "u", "m", "a", "n">>

W_challenge ==
  <<"c", "h", "a", "l", "l", "e", "n", "g", "e">>

ElementsNote ==
  <<"\n", "[", "N", "o", "t", "e", ":", " ", "I", "m", "a", "g", "e", " ", "c", "o", "u", "l",
    "d", " ", "n", "o", "t", " ", "b", "e", " ", "p", "r", "o", "c", "e", "s", "s", "e", "d",
    " ", "d", "i", "r", "e", "c", "t", "l", "y", " ", "-", " ", "t", "e", "x", "t", "-", "o",
    "n", "l", "y", " ", "f", "a", "l", "l", "b", "a", "c", "k", " ", "u", "s", "e", "d", "]">>

CaptchaNote ==
  <<"\n", "[", "N", "o", "t", "e", ":", " ", "I", "m", "a", "g", "e", " ", "c", "o", "u", "l",
    "d", " ", "n", "o", "t", " ", "b", "e", " ", "p", "r", "o", "c", "e", "s", "s", "e", "d",
    " ", "w", "i", "t", "h", " ", "t", "h", "i", "s", " ", "m", "o", "d", "e", "l", "]">>

R_NoJson ==
  <<"n", "o", " ", "v", "a", "l", "i", "d", " ", "j", "s", "o", "n", " ", "h", "e", "r", "e">>

R_Full1 ==
  <<"{", "\"", "i", "n", "p", "u", "t", " ", "f", "i", "e", "l", "d", "\"", ":", " ", "{", "\"",
    "f", "o", "u", "n", "d", "\"", ":", " ", "t", "r", "u", "e", ",", " ", "\"", "c", "o", "o",
    "r", "d", "i", "n", "a", "t", "e", "s", "\"", ":", " ", "[", "8", "4", "0", ",", " ", "9",
    "4", "0", "]", "}", "}">>

R_Full2 ==
  <<"{", "\"", "i", "n", "p", "u", "t", " ", "f", "i", "e", "l", "d", "\"", ":", " ", "{", "\"",
    "f", "o", "u", "n", "d", "\"", ":", " ", "t", "r", "u", "e", ",", " ", "\"", "c", "o", "o",
    "r", "d", "i", "n", "a", "t", "e", "s", "\"", ":", " ", "[", "8", "4", "0", ",", " ", "9",
    "4", "0", "]", "}", ",", " ", "\"", "s", "e", "n", "d", " ", "b", "u", "t", "t", "o", "n",
    "\"", ":", " ", "{", "\"", "f", "o", "u", "n", "d", "\"", ":", " ", "t", "r", "u", "e", ",",
    " ", "\"", "c", "o", "o", "r", "d", "i", "n", "a", "t", "e", "s", "\"", ":", " ", "[", "1",
    "6", "0", "0", ",", " ", "9", "4", "0", "]", "}", "}">>

R_Wrapped ==
  <<"S", "u", "r", "e", "!", " ", "{", "\"", "i", "n", "p", "u", "t", " ", "f", "i", "e", "l",
    "d", "\"", ":", " ", "{", "\"", "f", "o", "u", "n", "d", "\"", ":", " ", "t", "r", "u", "e",
    ",", " ", "\"", "c", "o", "o", "r", "d", "i", "n", "a", "t", "e", "s", "\"", ":", " ", "[",
    "8", "4", "0", ",", " ", "9", "4", "0", "]", "}", "}", " ", "D", "o", "n", "e", ".">>

R_NotFound ==
  <<"{", "\"", "i", "n", "p", "u", "t", " ", "f", "i", "e", "l", "d", "\"", ":", " ", "{", "\"",
    "f", "o", "u", "n", "d", "\"", ":", " ", "f", "a", "l", "s", "e", ",", " ", "\"", "c", "o",
    "o", "r", "d", "i", "n", "a", "t", "e", "s", "\"", ":", " ", "n", "u", "l", "l", "}", "}">>

R_Flat ==
  <<"{", "\"", "i", "n", "p", "u", "t", " ", "f", "i", "e", "l", "d", "\"", ":", " ", "[", "8",
    "4", "0", ",", " ", "9", "4", "0", "]", "}">>

R_Invalid ==
  <<"{", "i", "n", "p", "u", "t", " ", "f", "i", "e", "l", "d", ":", " ", "o", "o", "p", "s", "}">>

R_Prose ==
  <<"T", "h", "e", " ", "i", "n", "p", "u", "t", " ", "f", "i", "e", "l", "d", " ", "i", "s",
    " ", "a", "t", " ", "(", "8", "4", "0", ",", " ", "9", "4", "0", ")", ",", " ", "t", "h",
    "e", " ", "s", "e", "n", "d", " ", "b", "u", "t", "t", "o", "n", " ", "a", "t", " ", "[",
    "1", "6", "0", "0", ",", " ", "9", "4", "0", "]", ".">>

R_Mention ==
  <<"I", " ", "c", "a", "n", " ", "s", "e", "e", " ", "t", "h", "e", " ", "i", "n", "p", "u",
    "t", " ", "f", "i", "e", "l", "d", " ", "b", "u", "t", " ", "n", "o", "t", " ", "w", "h",
    "e", "r", "e", " ", "i", "t", " ", "i", "s", ".">>

\* braces that hold no JSON, then a description with coordinates
R_BrokenThenProse ==
  <<"{", "o", "o", "p", "s", "}", " ", "t", "h", "e", " ", "i", "n", "p",
    "u", "t", " ", "f", "i", "e", "l", "d", " ", "i", "s", " ", "a", "t",
    " ", "(", "8", "4", "0", ",", " ", "9", "4", "0", ")">>

R_Reversed ==
  <<"}", " ", "t", "h", "e", " ", "i", "n", "p", "u", "t", " ", "f", "i", "e", "l", "d", " ",
    "i", "s", " ", "a", "t", " ", "1", "2", ",", " ", "3", "4", " ", "{">>

Q_Full ==
  <<"{", "\"", "i", "n", "p", "u", "t", "_", "f", "i", "e", "l", "d", "\"", ":", " ", "{", "\"",
    "c", "e", "n", "t", "e", "r", "\"", ":", " ", "[", "8", "4", "0", ",", " ", "9", "4", "0",
    "]", ",", " ", "\"", "b", "o", "x", "\"", ":", " ", "[", "1", "0", "0", ",", " ", "9", "0",
    "0", ",", " ", "1", "5", "0", "0", ",", " ", "9", "8", "0", "]", "}", ",", " ", "\"", "s",
    "e", "n", "d", "_", "b", "u", "t", "t", "o", "n", "\"", ":", " ", "{", "\"", "c", "e", "n",
    "t", "e", "r", "\"", ":", " ", "[", "1", "6", "0", "0", ",", " ", "9", "4", "0", "]", "}", "}">>

Q_Wrapped ==
  <<"H", "e", "r", "e", ":", " ", "{", "\"", "i", "n", "p", "u", "t", "_", "f", "i", "e", "l",
    "d", "\"", ":", " ", "{", "\"", "c", "e", "n", "t", "e", "r", "\"", ":", " ", "[", "8", "4",
    "0", ",", " ", "9", "4", "0", "]", "}", "}", " ", "o", "k">>

Q_ListValue ==
  <<"{", "\"", "i", "n", "p", "u", "t", "_", "f", "i", "e", "l", "d", "\"", ":", " ", "[", "8",
    "4", "0", ",", " ", "9", "4", "0", "]", "}">>

Q_CaptchaYes ==
  <<"{", "\"", "c", "a", "p", "t", "c", "h", "a", "_", "d", "e", "t", "e", "c", "t", "e", "d",
    "\"", ":", " ", "t", "r", "u", "e", ",", " ", "\"", "d", "e", "s", "c", "r", "i", "p", "t",
    "i", "o", "n", "\"", ":", " ", "\"", "c", "h", "e", "c", "k", "b", "o", "x", "\"", "}">>

Q_CaptchaNo ==
  <<"{", "\"", "c", "a", "p", "t", "c", "h", "a", "_", "d", "e", "t", "e", "c", "t", "e", "d",
    "\"", ":", " ", "f", "a", "l", "s", "e", ",", " ", "\"", "d", "e", "s", "c", "r", "i", "p",
    "t", "i", "o", "n", "\"", ":", " ", "\"", "\"", "}">>

C_Yes ==
  <<"Y", "e", "s", ",", " ", "t", "h", "e", "r", "e", " ", "i", "s", " ", "a", " ", "C", "A",
    "P", "T", "C", "H", "A", " ", "c", "h", "e", "c", "k", "b", "o", "x", ".">>

C_No ==
  <<"N", "o", ",", " ", "t", "h", "i", "s", " ", "i", "s", " ", "a", " ", "n", "o", "r", "m",
    "a", "l", " ", "c", "h", "a", "t", " ", "p", "a", "g", "e", ".">>

C_NoButKeyword ==
  <<"N", "o", ".", " ", "I", " ", "s", "e", "e", " ", "n", "o", " ", "c", "a", "p", "t", "c",
    "h", "a", " ", "o", "r", " ", "r", "o", "b", "o", "t", " ", "c", "h", "e", "c", "k", " ",
    "o", "n", " ", "t", "h", "e", " ", "p", "a", "g", "e", ".">>

\* a negative answer that names the challenge after its first 20 characters
C_LateKeyword ==
  <<"N", "o", ",", " ", "t", "h", "i", "s", " ", "i", "s", " ", "a", " ",
    "n", "o", "r", "m", "a", "l", " ", "c", "h", "a", "t", " ", "p", "a",
    "g", "e", " ", "w", "i", "t", "h", "o", "u", "t", " ", "a", "n", "y",
    " ", "c", "a", "p", "t", "c", "h", "a", ".">>

C_HumanChallenge ==
  <<"I", "t", " ", "a", "s", "k", "s", ":", " ", "a", "r", "e", " ", "y", "o", "u", " ", "h",
    "u", "m", "a", "n", "?", " ", "A", " ", "c", "h", "a", "l", "l", "e", "n", "g", "e", " ",
    "i", "s", " ", "s", "h", "o", "w", "n", ".">>

\* answers the inference model can give
Responses ==
  {Empty, R_NoJson, R_Full1, R_Full2, R_Wrapped, R_NotFound, R_Flat, R_Invalid,
   R_Prose, R_Mention, R_Reversed, R_BrokenThenProse,
   Q_Full, Q_Wrapped, Q_ListValue, Q_CaptchaYes,
   Q_CaptchaNo, C_Yes, C_No, C_NoButKeyword, C_LateKeyword,
   C_HumanChallenge}

\* element_descriptions lists that are asked for
ElementLists ==
  {<<InputField>>, <<InputField, SendButton>>}

\* what can go wrong in one call: nothing, loading the model, taking the
\* screenshot, the first inference attempt, or every inference attempt
Faults ==
  {"none", "load", "capture", "infer_primary", "infer_both"}

\* a position, or None
Loc(found, x, y) ==
  [found |-> found, x |-> x, y |-> y]

NoneLoc ==
  Loc(FALSE, JNull, JNull)

JNum(n) ==
  [t |-> "num", n |-> n]

\* {element: None for element in element_descriptions}
AllNone(elems) ==
  [i \in 1..Len(elems) |-> NoneLoc]

RECURSIVE BraceMatches(_, _)
\* re.findall(r'\{.*?\}', s, re.DOTALL) from position i on
BraceMatches(s, i) ==
  LET opens == {j \in i..Len(s) : s[j] = "{"}
  IN  IF opens = {} THEN <<>>
      ELSE LET closes == {k \in (Min(opens) + 1)..Len(s) : s[k] = "}"}
           IN  IF closes = {} THEN <<>>
               ELSE <<SubSeq(s, Min(opens), Min(closes))>>
                      \o BraceMatches(s, Min(closes) + 1)

\* max(matches, key=len): the first of the longest
Longest(matches) ==
  matches[Min({i \in 1..Len(matches) :
                 \A j \in 1..Len(matches) : Len(matches[j]) <= Len(matches[i])})]

\* the regular expression [\(\[]?\s*(\d+)\s*,\s*(\d+)\s*[\)\]]? tried at position p
CoordMatchAt(w, p) ==
  LET p1 == IF p <= Len(w) /\ w[p] \in {"(", "["} THEN p + 1 ELSE p
      p2 == SkipWs(w, p1)
      d1 == SkipDigits(w, p2)
      p3 == SkipWs(w, d1)
      p4 == SkipWs(w, p3 + 1)
      d2 == SkipDigits(w, p4)
  IN  IF d1 > p2 /\ p3 <= Len(w) /\ w[p3] = "," /\ d2 > p4
      THEN [ok |-> TRUE, x |-> ToInt(SubSeq(w, p2, d1 - 1)),
            y |-> ToInt(SubSeq(w, p4, d2 - 1))]
      ELSE [ok |-> FALSE, x |-> 0, y |-> 0]

\* re.search of that expression in w: the leftmost match
CoordSearch(w) ==
  LET hits == {p \in 1..Len(w) : CoordMatchAt(w, p).ok}
  IN  IF hits = {} THEN [ok |-> FALSE, x |-> 0, y |-> 0]
      ELSE CoordMatchAt(w, Min(hits))

\* lines 331-353: the entry built by hand for one element
ManualEntry(resp, element) ==
  LET mentioned == Contains(Lower(element), Lower(resp))
      element_pos == Find(Lower(element), Lower(resp))
      m == IF element_pos >= 0
           THEN CoordSearch(Slice(resp, element_pos, element_pos + 200))
           ELSE [ok |-> FALSE, x |-> 0, y |-> 0]
  IN  [t |-> "obj",
       kv |-> << [k |-> K_found,
                  v |-> IF mentioned THEN [t |-> "true"] ELSE [t |-> "false"]],
                 [k |-> K_coordinates,
                  v |-> IF m.ok THEN [t |-> "arr", items |-> <<JNum(m.x), JNum(m.y)>>]
                        ELSE JNull] >>]

\* lines 331-353 for all elements
ManualResults(resp, elems) ==
  [t |-> "obj",
   kv |-> [i \in 1..Len(elems) |-> [k |-> elems[i], v |-> ManualEntry(resp, elems[i])]]]

\* lines 304-353: detection_results, or failed where the code raises
\* ValueError (caught by the handler of line 379)
DetectionResults(resp, elems) ==
  LET json_matches == BraceMatches(resp, 1)
      json_start == Find(<<"{">>, resp)
      json_end == RFind(<<"}">>, resp) + 1
  IN  IF json_matches # <<>>
      THEN JsonLoads(Longest(json_matches))
      ELSE IF json_start >= 0 /\ json_end > json_start
      THEN JsonLoads(Slice(resp, json_start, json_end))
      ELSE JOk(ManualResults(resp, elems), 0)

\* lines 357-369 for one element; the entry is known to be an object
ProcessElement(dr, element) ==
  IF HasKey(dr, element) /\ Truthy(Get(Lookup(dr, element), K_found, [t |-> "false"]))
  THEN LET coords == Get(Lookup(dr, element), K_coordinates, JNull)
       IN  IF coords.t = "arr" /\ Len(coords.items) = 2
           THEN Loc(TRUE, coords.items[1], coords.items[2])
           ELSE NoneLoc
  ELSE NoneLoc

\* lines 300-381: the parse of the model's answer; every exception in it ends
\* in the all-None result
ParseDetection(resp, elems) ==
  LET dr == DetectionResults(resp, elems)
  IN  IF ~dr.ok THEN AllNone(elems)
      ELSE IF \E i \in 1..Len(elems) :
                HasKey(dr.val, elems[i]) /\ Lookup(dr.val, elems[i]).t # "obj"
      THEN AllNone(elems)
      ELSE [i \in 1..Len(elems) |-> ProcessElement(dr.val, elems[i])]

\* lines 527-532
CaptchaAffirmative(resp) ==
  LET response_lower == Lower(resp)
  IN  \/ Contains(W_yes, Slice(response_lower, 0, 20))
      \/ Contains(W_captcha, response_lower)
      \/ Contains(W_verification, response_lower)
      \/ Contains(W_robot, response_lower)
      \/ Contains(W_human, response_lower) /\ Contains(W_challenge, response_lower)

CallRecord(op, fault, raised, locs, captcha) ==
  [op |-> op, fault |-> fault, raised |-> raised, locs |-> locs, captcha |-> captcha]

\* the failure that really happens in a call: a loaded model is not loaded again
EffectiveFault(fault, loaded) ==
  IF fault = "load" /\ loaded THEN "none" ELSE fault

\* VisionDetector.load_model, lines 57-97: raises when loading fails
VisionLoadRaises(fault) ==
  v_model = "none" /\ fault = "load"

\* VisionDetector.detect_elements, lines 157-387
VisionDetectElements(fault) ==
  /\ dcalls < MaxCalls
  /\ dcalls' = dcalls + 1
  /\ UNCHANGED <<outsideDet, response, elements, q_loaded>>
  /\ IF VisionLoadRaises(fault)
     THEN /\ v_model' = "none"
          /\ lastCall' = CallRecord("detect_elements", EffectiveFault(fault, v_model = "loaded"), TRUE, <<>>, FALSE)
     ELSE /\ v_model' = "loaded"
          /\ lastCall' =
               CASE fault = "capture" ->
                      CallRecord("detect_elements", EffectiveFault(fault, v_model = "loaded"), TRUE, <<>>, FALSE)
                 [] fault = "infer_both" ->
                      CallRecord("detect_elements", EffectiveFault(fault, v_model = "loaded"), FALSE, AllNone(elements), FALSE)
                 [] fault = "infer_primary" ->
                      CallRecord("detect_elements", EffectiveFault(fault, v_model = "loaded"), FALSE,
                                 ParseDetection(response \o ElementsNote, elements), FALSE)
                 [] OTHER ->
                      CallRecord("detect_elements", EffectiveFault(fault, v_model = "loaded"), FALSE,
                                 ParseDetection(response, elements), FALSE)

\* VisionDetector.detect_captcha, lines 425-549
VisionDetectCaptcha(fault) ==
  /\ dcalls < MaxCalls
  /\ dcalls' = dcalls + 1
  /\ UNCHANGED <<outsideDet, response, elements, q_loaded>>
  /\ IF VisionLoadRaises(fault)
     THEN /\ v_model' = "none"
          /\ lastCall' = CallRecord("detect_captcha", EffectiveFault(fault, v_model = "loaded"), TRUE, <<>>, FALSE)
     ELSE /\ v_model' = "loaded"
          /\ lastCall' =
               CASE fault = "capture" ->
                      CallRecord("detect_captcha", EffectiveFault(fault, v_model = "loaded"), TRUE, <<>>, FALSE)
                 [] fault = "infer_both" ->
                      CallRecord("detect_captcha", EffectiveFault(fault, v_model = "loaded"), FALSE, <<>>, FALSE)
                 [] fault = "infer_primary" ->
                      CallRecord("detect_captcha", EffectiveFault(fault, v_model = "loaded"), FALSE, <<>>,
                                 CaptchaAffirmative(response \o CaptchaNote))
                 [] OTHER ->
                      CallRecord("detect_captcha", EffectiveFault(fault, v_model = "loaded"), FALSE, <<>>,
                                 CaptchaAffirmative(response))

\* QwenVLProcessor._extract_json_from_response, lines 247-271: {} when nothing parses
ExtractJsonFromResponse(resp) ==
  LET start_idx == Find(<<"{">>, resp)
      end_idx == RFind(<<"}">>, resp) + 1
      parsed == JsonLoads(Slice(resp, start_idx, end_idx))
  IN  IF start_idx >= 0 /\ end_idx > start_idx /\ parsed.ok
      THEN parsed.val
      ELSE [t |-> "obj", kv |-> <<>>]

\* lines 313-318 (and the same for the other two names): the center of one element
QwenCenter(results, name) ==
  IF HasKey(results, name) /\ Lookup(results, name).t = "obj"
       /\ HasKey(Lookup(results, name), K_center)
       /\ Lookup(Lookup(results, name), K_center).t = "arr"
       /\ Len(Lookup(Lookup(results, name), K_center).items) = 2
  THEN Loc(TRUE, Lookup(Lookup(results, name), K_center).items[1],
           Lookup(Lookup(results, name), K_center).items[2])
  ELSE NoneLoc

QwenNames ==
  <<K_input_field, K_send_button, K_response_area>>

\* QwenVLProcessor._process_with_model, lines 208-245, raises RuntimeError
QwenProcessRaises(fault) ==
  \/ ~q_loaded /\ fault = "load"
  \/ fault \in {"infer_primary", "infer_both"}

\* QwenVLProcessor.detect_ui_elements, lines 273-345 (image is None: a screenshot is taken)
QwenDetectUiElements(fault) ==
  /\ dcalls < MaxCalls
  /\ dcalls' = dcalls + 1
  /\ UNCHANGED <<outsideDet, response, elements, v_model>>
  /\ IF fault = "capture"
     THEN /\ UNCHANGED q_loaded
          /\ lastCall' = CallRecord("detect_ui_elements", EffectiveFault(fault, q_loaded), TRUE, <<>>, FALSE)
     ELSE /\ q_loaded' = (q_loaded \/ fault # "load")
          /\ lastCall' =
               IF QwenProcessRaises(fault)
               THEN CallRecord("detect_ui_elements", EffectiveFault(fault, q_loaded), FALSE, AllNone(QwenNames), FALSE)
               ELSE CallRecord("detect_ui_elements", EffectiveFault(fault, q_loaded), FALSE,
                      [i \in 1..3 |-> QwenCenter(ExtractJsonFromResponse(response),
                                                 QwenNames[i])], FALSE)

\* QwenVLProcessor.detect_captcha, lines 347-384
QwenDetectCaptcha(fault) ==
  /\ dcalls < MaxCalls
  /\ dcalls' = dcalls + 1
  /\ UNCHANGED <<outsideDet, response, elements, v_model>>
  /\ IF fault = "capture"
     THEN /\ UNCHANGED q_loaded
          /\ lastCall' = CallRecord("qwen_detect_captcha", EffectiveFault(fault, q_loaded), TRUE, <<>>, FALSE)
     ELSE /\ q_loaded' = (q_loaded \/ fault # "load")
          /\ lastCall' =
               IF QwenProcessRaises(fault)
               THEN CallRecord("qwen_detect_captcha", EffectiveFault(fault, q_loaded), FALSE, <<>>, FALSE)
               ELSE CallRecord("qwen_detect_captcha", EffectiveFault(fault, q_loaded), FALSE, <<>>,
                      Truthy(Get(ExtractJsonFromResponse(response), K_captcha_detected,
                                 [t |-> "false"])))

NoCall ==
  CallRecord("none", "none", FALSE, <<>>, FALSE)

DetectorNext ==
  \/ \E fault \in Faults : VisionDetectElements(fault)
  \/ \E fault \in Faults : VisionDetectCaptcha(fault)
  \/ \E fault \in Faults : QwenDetectUiElements(fault)
  \/ \E fault \in Faults : QwenDetectCaptcha(fault)

(***************************************************************************)
(* Query loop of the orchestrators                                         *)
(* (vision_main.py and main.py: run_automation; site.py:                   *)
(* chat_with_random_delay; site_vision.py, ui_automation.py, site.py:      *)
(* wait_for_captcha_solution, send_message)                                *)
(***************************************************************************)
\* queries in one run
MaxQueries ==
  2

\* wait_for_captcha_solution(timeout=120)
CAPTCHA_TIMEOUT ==
  120

\* time.sleep(3) between two checks of the wait loop
CAPTCHA_POLL_SLEEP ==
  3

\* --delay-min and --delay-max of run_automation
delay_min ==
  10

delay_max ==
  30

\* delay_range of chat_with_random_delay
chat_delay_min ==
  20

chat_delay_max ==
  60

\* random.randint(lo, hi): the ends and the middle of the range
DelayChoices(lo, hi) ==
  {lo, (lo + hi) \div 2, hi}

\* what detect_captcha can do: report no challenge, report one, or raise
\* (it takes a screenshot and calls the detector outside any handler)
DetectOutcomes ==
  {"absent", "present", "raise"}

\* human.random_idle: the inputs it delivers and the whole seconds it takes;
\* the first element stands for the draw random.random() >= 0.3 (no idle)
IdleChoices ==
  {[dur |-> 0, moves |-> {}]}
    \cup [dur : {1, 2}, moves : SUBSET {"pointer_move", "scroll"}]

\* the inputs send_message delivers: move to the input field, click, type,
\* then the send button or the Enter key
SendInputs ==
  {"pointer_move", "click", "typing", "submit"}

\* the position after iteration qi of the loop has ended without a break
NextIteration ==
  IF qi + 1 < nq THEN (IF runner = "run_automation" THEN "check" ELSE "send")
  ELSE "done"

Put(seq, i, v) ==
  [seq EXCEPT ![i] = v]

\* run_automation, lines 272-273: the challenge check before each query;
\* chat_with_random_delay, lines 197-203: only before the first message
CheckCaptcha(d) ==
  /\ opc = "check"
  /\ d \in DetectOutcomes
  /\ UNCHANGED <<outsideRun, runner, nq, qi, inputs, records, printed, lastDelay>>
  /\ wait_elapsed' = 0
  /\ CASE d = "raise" ->
            /\ opc' = "crashed"
            /\ waitExit' = waitExit
       [] d = "present" ->
            /\ opc' = "wait"
            /\ waitExit' = Put(waitExit, qi + 1, "waiting")
       [] OTHER ->
            /\ opc' = "send"
            /\ waitExit' = waitExit

\* wait_for_captcha_solution: one pass of the while loop
WaitPoll(d, idle) ==
  /\ opc = "wait"
  /\ wait_elapsed < CAPTCHA_TIMEOUT
  /\ d \in DetectOutcomes
  /\ idle \in IdleChoices
  /\ UNCHANGED <<outsideRun, runner, nq, qi, records, printed, lastDelay>>
  /\ CASE d = "raise" ->
            /\ opc' = "crashed"
            /\ waitExit' = Put(waitExit, qi + 1, "raised")
            /\ wait_elapsed' = 0
            /\ UNCHANGED inputs
       [] d = "absent" ->
            /\ opc' = "send"
            /\ waitExit' = Put(waitExit, qi + 1, "absent")
            /\ wait_elapsed' = 0
            /\ UNCHANGED inputs
       [] OTHER ->
            /\ opc' = "wait"
            /\ wait_elapsed' = wait_elapsed + CAPTCHA_POLL_SLEEP + idle.dur
            /\ inputs' = Put(inputs, qi + 1, inputs[qi + 1] \cup idle.moves)
            /\ UNCHANGED waitExit

\* wait_for_captcha_solution returns False; run_automation prints and
\* continues with the next query, chat_with_random_delay logs and breaks
WaitTimeout ==
  /\ opc = "wait"
  /\ ~(wait_elapsed < CAPTCHA_TIMEOUT)
  /\ UNCHANGED <<outsideRun, runner, nq, inputs, records, lastDelay>>
  /\ wait_elapsed' = 0
  /\ waitExit' = Put(waitExit, qi + 1, "timeout")
  /\ IF runner = "run_automation"
     THEN /\ printed' = Put(printed, qi + 1, "CAPTCHA solution timed out, skipping query")
          /\ qi' = qi + 1
          /\ opc' = IF qi + 1 < nq THEN "check" ELSE "done"
     ELSE /\ printed' = Put(printed, qi + 1, "Failed to get past CAPTCHA")
          /\ qi' = qi
          /\ opc' = "done"

\* a loop that goes on to the delay without reading the response
AfterSend_noread ==
  "delay"

\* where the loop goes after a successful send: site.get_response()
AfterSend ==
  "response"

\* send_message and what the loop does with its result
SendMessage(ok) ==
  /\ opc = "send"
  /\ ok \in BOOLEAN
  /\ UNCHANGED <<outsideRun, runner, nq, qi, wait_elapsed, records, waitExit, lastDelay>>
  /\ IF ok
     THEN /\ inputs' = Put(inputs, qi + 1, inputs[qi + 1] \cup SendInputs)
          /\ opc' = AfterSend
          /\ UNCHANGED printed
     ELSE /\ UNCHANGED inputs
          /\ IF runner = "run_automation"
             THEN /\ printed' = Put(printed, qi + 1, "Failed to send query")
                  /\ opc' = "delay"
             ELSE /\ printed' = Put(printed, qi + 1, "Failed to send message")
                  /\ opc' = "done"

\* get_response followed by save_response (run_automation) or
\* responses.append (chat_with_random_delay); kind tells whether the wait for
\* the response ran into its time limit
GetResponse(kind) ==
  /\ opc = "response"
  /\ kind \in {"captured", "timed_out"}
  /\ UNCHANGED <<outsideRun, runner, nq, qi, wait_elapsed, inputs, waitExit, lastDelay>>
  /\ records' = Put(records, qi + 1, kind)
  /\ printed' = Put(printed, qi + 1,
                    IF runner = "run_automation" THEN "Response preview" ELSE "none")
  /\ opc' = "delay"

\* the end of an iteration: the delay before the next query, with idle
\* behaviour in chat_with_random_delay
InterQueryDelay(delay, idle) ==
  /\ opc = "delay"
  /\ idle \in IdleChoices
  /\ UNCHANGED <<outsideRun, runner, nq, wait_elapsed, records, printed, waitExit>>
  /\ qi' = qi + 1
  /\ opc' = NextIteration
  /\ IF qi < nq - 1
     THEN /\ delay \in IF runner = "run_automation"
                       THEN DelayChoices(delay_min, delay_max)
                       ELSE DelayChoices(chat_delay_min, chat_delay_max)
          /\ lastDelay' = delay
          /\ inputs' = IF runner = "run_automation" THEN inputs
                       ELSE Put(inputs, qi + 1, inputs[qi + 1] \cup idle.moves)
     ELSE /\ delay = 0
          /\ idle.dur = 0
          /\ UNCHANGED <<lastDelay, inputs>>

RunNext ==
  \/ \E d \in DetectOutcomes : CheckCaptcha(d)
  \/ \E d \in DetectOutcomes, idle \in IdleChoices : WaitPoll(d, idle)
  \/ WaitTimeout
  \/ \E ok \in BOOLEAN : SendMessage(ok)
  \/ \E kind \in {"captured", "timed_out"} : GetResponse(kind)
  \/ \E delay \in 0..chat_delay_max, idle \in IdleChoices : InterQueryDelay(delay, idle)

(***************************************************************************)
(* ask_llm (claude_interface.py): navigate, send, capture, save            *)
(***************************************************************************)
\* ask_llm(wait_time=45)
wait_time ==
  45

\* ask_llm(retries=2)
retries ==
  2

\* send_message_to_browser(max_retries=2)
send_max_retries ==
  2

\* the length below which ask_llm treats a response as not captured
ASK_MIN_LEN ==
  20

\* response.startswith("Error:")
ErrorPrefix ==
  <<"E", "r", "r", "o", "r", ":">>

ErrCapturing ==
  <<"E", "r", "r", "o", "r", " ", "c", "a", "p", "t", "u", "r", "i", "n",
    "g", " ", "r", "e", "s", "p", "o", "n", "s", "e", ":", " ">>

ErrUnknownLLM ==
  <<"E", "r", "r", "o", "r", ":", " ", "U", "n", "k", "n", "o", "w", "n",
    " ", "L", "L", "M", " ", "'", "b", "a", "r", "d", "'", ".", " ", "A",
    "v", "a", "i", "l", "a", "b", "l", "e", " ", "o", "p", "t", "i", "o",
    "n", "s", ":", " ", "p", "e", "r", "p", "l", "e", "x", "i", "t", "y",
    ",", " ", "q", "w", "e", "n", ",", " ", "c", "l", "a", "u", "d", "e",
    ",", " ", "l", "l", "a", "m", "a">>

ErrNavigate ==
  <<"E", "r", "r", "o", "r", ":", " ", "F", "a", "i", "l", "e", "d", " ",
    "t", "o", " ", "n", "a", "v", "i", "g", "a", "t", "e", " ", "t", "o",
    " ", "h", "t", "t", "p", "s", ":", "/", "/", "c", "h", "a", "t", ".",
    "q", "w", "e", "n", ".", "a", "i", "/">>

ErrSend ==
  <<"E", "r", "r", "o", "r", ":", " ", "F", "a", "i", "l", "e", "d", " ",
    "t", "o", " ", "s", "e", "n", "d", " ", "m", "e", "s", "s", "a", "g",
    "e", " ", "a", "f", "t", "e", "r", " ", "3", " ", "a", "t", "t", "e",
    "m", "p", "t", "s">>

\* str.startswith
StartsWith(s, prefix) ==
  Len(s) >= Len(prefix) /\ SubSeq(s, 1, Len(prefix)) = prefix

\* mutation: ask_llm asks for the length capture_response asks of a stable text
AskRejects_stablemin(resp) ==
  resp = Empty \/ Len(resp) <= MIN_STABLE_LEN \/ StartsWith(resp, ErrorPrefix)

\* the test of line 468: the response is missing, short or an error text
AskRejects(resp) ==
  resp = Empty \/ Len(resp) < ASK_MIN_LEN \/ StartsWith(resp, ErrorPrefix)

\* lines 436-451: the URL lookup and the navigation
AskNavigate(known, onSite, navOk) ==
  /\ apc = "start"
  /\ UNCHANGED <<monVars, outsideAsk, attempt, send_runs, ask_saved>>
  /\ IF ~known
     THEN apc' = "done" /\ ask_result' = ErrUnknownLLM
     ELSE IF ~onSite /\ ~navOk
     THEN apc' = "done" /\ ask_result' = ErrNavigate
     ELSE apc' = "send" /\ ask_result' = ask_result

\* mutation: the send loop gives up one pass earlier
SendRetryLeft_oneless(a) ==
  a + 1 < retries

\* "elif attempt < retries", line 457
SendRetryLeft(a) ==
  a < retries

\* send_message_to_browser, lines 132-148: the script is run until it succeeds,
\* max_retries + 1 times at most; failed is the number of runs that fail first
SendRuns(failed) ==
  IF failed <= send_max_retries THEN failed + 1 ELSE send_max_retries + 1

\* lines 453-462: one pass of the send loop; after a successful send
\* capture_response(max_wait_time=wait_time) starts
AskSend(failed) ==
  /\ apc = "send"
  /\ failed \in 0..(send_max_retries + 1)
  /\ send_runs' = send_runs + SendRuns(failed)
  /\ UNCHANGED <<outsideAsk, ask_saved>>
  /\ UNCHANGED <<impl, readerKind, constText, scriptPos, polling_interval,
                 max_wait_time, now, last_content, last_content_time, polls,
                 outcome, returned, prevText, equalRun, seenUsable, lastContent,
                 lastDotCount, stableCount>>
  /\ IF failed <= send_max_retries
     THEN /\ apc' = "capturing" /\ mpc' = "polling"
          /\ UNCHANGED <<attempt, ask_result>>
     ELSE IF SendRetryLeft(attempt)
     THEN /\ attempt' = attempt + 1
          /\ UNCHANGED <<apc, mpc, ask_result>>
     ELSE /\ apc' = "done" /\ ask_result' = ErrSend
          /\ UNCHANGED <<attempt, mpc>>

\* lines 464-488: capture_response has returned
AskFinish(save_response) ==
  /\ apc = "capturing" /\ mpc = "done"
  /\ UNCHANGED <<monVars, outsideAsk, attempt, send_runs>>
  /\ apc' = "done"
  /\ IF AskRejects(returned)
     THEN /\ ask_result' = ErrCapturing \o returned
          /\ UNCHANGED ask_saved
     ELSE /\ ask_result' = Strip(returned)
          /\ ask_saved' = IF save_response THEN Strip(returned) ELSE ask_saved

(***************************************************************************)
(* extract_json_from_html.py: is_valid_json_obj, extract_json_from_html,   *)
(* main                                                                    *)
(***************************************************************************)
\* candidate texts one run hands to clean_json_string
MaxCands ==
  3

K_question ==
  <<"q", "u", "e", "s", "t", "i", "o", "n">>

K_thinking ==
  <<"t", "h", "i", "n", "k", "i", "n", "g">>

K_answer ==
  <<"a", "n", "s", "w", "e", "r">>

T_UnknownQuestion ==
  <<"U", "n", "k", "n", "o", "w", "n", " ", "q", "u", "e", "s", "t", "i",
    "o", "n">>

T_Question ==
  <<"c", "a", "p", "i", "t", "a", "l", " ", "o", "f", " ", "A", "r", "i",
    "z", "o", "n", "a", "?">>

T_Thinking ==
  <<"A", "r", "i", "z", "o", "n", "a", ",", " ", "s", "o", " ", "P", "h",
    "o", "e", "n", "i", "x">>

T_Phoenix ==
  <<"P", "h", "o", "e", "n", "i", "x">>

T_SantaFe ==
  <<"S", "a", "n", "t", "a", " ", "F", "e">>

JStr(text) ==
  [t |-> "str", s |-> text]

JObj(members) ==
  [t |-> "obj", kv |-> members]

Member(key, value) ==
  [k |-> key, v |-> value]

\* nothing printed yet
NoOutput ==
  [t |-> "none"]

\* the default of --fields, and the list of test_custom_fields
FieldLists ==
  {<<K_question, K_thinking, K_answer>>, <<K_question, K_answer>>}

\* values clean_json_string(text, return_dict=True) gives back
V_Full ==
  JObj(<<Member(K_question, JStr(T_Question)), Member(K_thinking, JStr(T_Thinking)),
         Member(K_answer, JStr(T_Phoenix))>>)

V_Full2 ==
  JObj(<<Member(K_question, JStr(T_Question)), Member(K_thinking, JStr(T_Thinking)),
         Member(K_answer, JStr(T_SantaFe))>>)

V_QA ==
  JObj(<<Member(K_question, JStr(T_Question)), Member(K_answer, JStr(T_SantaFe))>>)

V_EmptyAnswer ==
  JObj(<<Member(K_question, JStr(T_Question)), Member(K_thinking, JStr(T_Thinking)),
         Member(K_answer, JStr(Empty))>>)

V_NumAnswer ==
  JObj(<<Member(K_question, JStr(T_Question)), Member(K_thinking, JStr(T_Thinking)),
         Member(K_answer, JNum(42))>>)

V_EmptyObj ==
  JObj(<<>>)

V_List ==
  [t |-> "arr", items |-> <<JStr(T_Phoenix)>>]

\* clean_json_string failing with json.JSONDecodeError, and with another error
V_DecodeError ==
  [t |-> "JSONDecodeError"]

V_OtherError ==
  [t |-> "Exception"]

CleanResults ==
  {V_Full, V_Full2, V_QA, V_EmptyAnswer, V_NumAnswer, V_EmptyObj, V_List,
   V_DecodeError, V_OtherError}

\* mutation: the fields only have to be present
is_valid_json_obj_present(json_obj, fields) ==
  /\ json_obj.t = "obj"
  /\ \A i \in 1..Len(fields) : HasKey(json_obj, fields[i])

\* is_valid_json_obj, lines 26-35
is_valid_json_obj(json_obj, fields) ==
  /\ json_obj.t = "obj"
  /\ \A i \in 1..Len(fields) : HasKey(json_obj, fields[i])
  /\ \A i \in 1..Len(fields) :
       Truthy(Lookup(json_obj, fields[i])) /\ Lookup(json_obj, fields[i]).t = "str"

\* the test before every append: json_obj != {} and is_valid_json_obj(...)
Accepted(json_obj) ==
  json_obj # V_EmptyObj /\ is_valid_json_obj(json_obj, required_fields)

\* the order of the passes of extract_json_from_html
PassOrder ==
  <<"pre", "script", "data", "text_all_fields", "text_any", "construct", "main">>

PassIndex(name) ==
  CHOOSE i \in 1..Len(PassOrder) : PassOrder[i] = name

\* the passes that can follow pass name: the second pass over the text
\* elements and the construction start only while json_objects is empty, and
\* then the construction is always tried before main prints
LaterPasses(name, objects) ==
  {PassOrder[i] : i \in (PassIndex(name) + 1)..Len(PassOrder)}
    \ (IF objects # <<>> THEN {"text_any", "construct"} ELSE {"main"})

\* the pass the run is in after this candidate: the same one, or a later one
\* when the pass has no further candidate
ExtractAdvance(to) ==
  /\ to \in {xpc} \cup LaterPasses(xpc, json_objects')
  /\ to = xpc => ncand' < MaxCands
  /\ xpc' = to

\* one candidate of one pass: lines 55-69 (code blocks), 76-94 (script tags),
\* 101-114 (data- attributes), 122-135 and 139-155 (text elements)
ExtractCandidate(v, to) ==
  /\ xpc \in {"pre", "script", "data", "text_all_fields", "text_any"}
  /\ ncand < MaxCands
  /\ v \in CleanResults
  /\ ncand' = ncand + 1
  /\ UNCHANGED <<outsideExt, required_fields, all_flag, stdout_json>>
  /\ CASE v = V_OtherError ->
            /\ xpc' = "crashed"
            /\ UNCHANGED json_objects
       [] v = V_DecodeError ->
            /\ UNCHANGED json_objects
            /\ ExtractAdvance(to)
       [] OTHER ->
            IF Accepted(v)
            THEN /\ json_objects' = Append(json_objects, v)
                 /\ IF xpc = "pre" THEN xpc' = "main" ELSE ExtractAdvance(to)
            ELSE /\ UNCHANGED json_objects
                 /\ ExtractAdvance(to)

\* a pass without candidates
ExtractSkip(to) ==
  /\ xpc \in {"pre", "script", "data", "text_all_fields", "text_any"}
  /\ to \in LaterPasses(xpc, json_objects)
  /\ xpc' = to
  /\ UNCHANGED <<outsideExt, required_fields, json_objects, all_flag, stdout_json, ncand>>

\* get_text().strip() of an element found by class, or no such element
ClassTexts ==
  {NoElement, Empty, T_Thinking}

\* lines 158-182: the object built from the page when nothing was found
ExtractConstruct(thinking_section, markdown_content, user_message) ==
  /\ xpc = "construct"
  /\ json_objects = <<>>
  /\ thinking_section \in ClassTexts
  /\ markdown_content \in ClassTexts
  /\ user_message \in ClassTexts
  /\ xpc' = "main"
  /\ UNCHANGED <<outsideExt, required_fields, all_flag, stdout_json, ncand>>
  /\ LET question_text == IF user_message # NoElement THEN user_message
                          ELSE T_UnknownQuestion
         constructed_json ==
           JObj(<<Member(K_question, JStr(question_text)),
                  Member(K_thinking, JStr(thinking_section)),
                  Member(K_answer, JStr(markdown_content))>>)
     IN  IF /\ thinking_section # NoElement /\ markdown_content # NoElement
            /\ thinking_section # Empty /\ markdown_content # Empty
            /\ is_valid_json_obj(constructed_json, required_fields)
         THEN json_objects' = Append(json_objects, constructed_json)
         ELSE UNCHANGED json_objects

\* main, lines 212-220: what is printed
ExtractMain ==
  /\ xpc = "main"
  /\ xpc' = "done"
  /\ UNCHANGED <<outsideExt, required_fields, json_objects, all_flag, ncand>>
  /\ stdout_json' =
       IF all_flag THEN [t |-> "arr", items |-> json_objects]
       ELSE IF json_objects # <<>> THEN json_objects[Len(json_objects)]
       ELSE V_EmptyObj

ExtractNext ==
  \/ \E v \in CleanResults, to \in {PassOrder[i] : i \in 1..Len(PassOrder)} :
       ExtractCandidate(v, to)
  \/ \E to \in {PassOrder[i] : i \in 1..Len(PassOrder)} : ExtractSkip(to)
  \/ \E th \in ClassTexts, md \in ClassTexts, um \in ClassTexts :
       ExtractConstruct(th, md, um)
  \/ ExtractMain

(***************************************************************************)
(* Pointer motion: move_mouse of HumanInput (human_input.py) and of        *)
(* HumanSimulation (human_simulation.py).  The coordinates the code hands  *)
(* to pyautogui are floats; here they are fixed-point numbers with FP      *)
(* units to the pixel.  Random draws are percentages taken from the ends   *)
(* of the ranges the code draws from.                                      *)
(***************************************************************************)
FP ==
  100

\* pyautogui.size()
ScreenW ==
  40

ScreenH ==
  30

\* how many steps late an iteration of the timed loop may run
MaxLag ==
  1

Pt(x, y) ==
  [x |-> x, y |-> y]

Pixel(x, y) ==
  Pt(x * FP, y * FP)

\* the places a move starts from and goes to: two corners of the screen and
\* a place less than five pixels from the first corner
Positions ==
  {Pixel(0, 0), Pixel(0, ScreenH - 1), Pixel(2, 1)}

\* int(math.sqrt(n))
ISqrt(n) ==
  CHOOSE k \in 0..(ScreenW + ScreenH) : k * k <= n /\ (k + 1) * (k + 1) > n

\* int(distance) between two whole-pixel places
Distance(a, b) ==
  LET dx == (b.x - a.x) \div FP
      dy == (b.y - a.y) \div FP
  IN  ISqrt(dx * dx + dy * dy)

\* a move_mouse without the short-move branch
IsTinyMove_never(d) ==
  d < 0

\* "if distance < 5": no curve for a move this short
IsTinyMove(d) ==
  d < 5

\* 1000 * sin(pi * k / 100) for k = 0..100 (index k + 1)
SinPiTable ==
  <<
    0, 31, 63, 94, 125, 156, 187, 218, 249, 279,
    309, 339, 368, 397, 426, 454, 482, 509, 536, 562,
    588, 613, 637, 661, 685, 707, 729, 750, 771, 790,
    809, 827, 844, 861, 876, 891, 905, 918, 930, 941,
    951, 960, 969, 976, 982, 988, 992, 996, 998, 1000,
    1000, 1000, 998, 996, 992, 988, 982, 976, 969, 960,
    951, 941, 930, 918, 905, 891, 876, 861, 844, 827,
    809, 790, 771, 750, 729, 707, 685, 661, 637, 613,
    588, 562, 536, 509, 482, 454, 426, 397, 368, 339,
    309, 279, 249, 218, 187, 156, 125, 94, 63, 31,
    0
  >>

\* 1000 * math.sin(math.pi * t) for t in hundredths
SinPi(t) ==
  SinPiTable[t + 1]

\* self.jitter_amount / self.jitter_factor, in hundredths: the largest value
\* of random.uniform(0.05, 0.15)
jitter_amount ==
  15

\* self.mouse_speed, in hundredths: the largest value of random.uniform(0.3, 0.8)
mouse_speed ==
  80

\* (1 - t) * a + t * b with t in thousandths
Lerp(a, b, t) ==
  Pt(((1000 - t) * a.x + t * b.x) \div 1000, ((1000 - t) * a.y + t * b.y) \div 1000)

\* _calculate_bezier_point: De Casteljau's algorithm
RECURSIVE CalculateBezierPoint(_, _)
CalculateBezierPoint(points, t) ==
  IF Len(points) = 1
  THEN points[1]
  ELSE CalculateBezierPoint(
         [i \in 1..(Len(points) - 1) |-> Lerp(points[i], points[i + 1], t)], t)

\* HumanInput: control_points_count and steps
HI_ControlPointsCount(d) ==
  Max({2, Min({5, (d \div 300) + 1})})

HI_Steps(d) ==
  Max({20, Min({150, d \div 5})})

\* HumanSimulation: control_points and steps
HS_ControlPoints(d) ==
  Max({2, Min({5, d \div 200})})

HS_Steps(d) ==
  Max({50, Min({200, d \div 10})})

\* the draws _generate_bezier_points makes for one control point: u is
\* random.uniform(0.8, 1.2) (its centre), f is random.uniform(0.1, 0.4) (its
\* ends), both in hundredths, a is random.uniform(-0.5, 0.5) in half turns
\* (its ends and centre)
HI_Draws ==
  [u : {100}, f : {10, 40}, a : {-1, 0, 1}]

\* the draws _calculate_bezier_curve makes for one control point: t is
\* random.uniform(0.2, 0.8) (its centre), ux and uy are random.uniform(0.1, 0.5)
\* (their ends), in hundredths
HS_Draws ==
  [t : {50}, ux : {10, 50}, uy : {10, 50}]

\* one control point of _generate_bezier_points; k is i + 1.  The offset
\* distance is distance * f * sin(pi t) and the perpendicular is
\* (-dy, dx) / distance, so the distance cancels.
HI_ControlPoint(start, end, count, k, draw) ==
  LET dx  == end.x - start.x
      dy  == end.y - start.y
      t   == Max({10, Min({90, (((k * 100) \div (count + 1)) * draw.u) \div 100})})
      bx  == start.x + (t * dx) \div 100
      by  == start.y + (t * dy) \div 100
      amp == draw.f * SinPi(t)
      \* (offset_x, offset_y) * distance for the three angles
      ox  == CASE draw.a = 0  -> 0 - dy
               [] draw.a = 1  -> 0 - dx
               [] draw.a = -1 -> dx
      oy  == CASE draw.a = 0  -> dx
               [] draw.a = 1  -> 0 - dy
               [] draw.a = -1 -> dy
  IN  Pt(bx + (amp * ox) \div 100000, by + (amp * oy) \div 100000)

\* _generate_bezier_points: start, the control points, end
GenerateBezierPoints(start, end, count, draws) ==
  <<start>> \o [k \in 1..count |-> HI_ControlPoint(start, end, count, k, draws[k])]
            \o <<end>>

\* one control point of _calculate_bezier_curve
HS_ControlPoint(start, end, draw) ==
  LET dx == end.x - start.x
      dy == end.y - start.y
  IN  Pt(start.x + (draw.t * dx) \div 100 + ((0 - dy) * draw.ux) \div 100,
         start.y + (draw.t * dy) \div 100 + (dx * draw.uy) \div 100)

\* the points list of _calculate_bezier_curve
CalculateBezierCurvePoints(start, end, count, draws) ==
  <<start>> \o [k \in 1..count |-> HS_ControlPoint(start, end, draws[k])]
            \o <<end>>

\* the ease-in-out of move_mouse (human_input.py), thousandths to thousandths
Ease(tl) ==
  IF tl < 500
  THEN (tl * tl * (3000 - 2 * tl)) \div 1000000
  ELSE 500 + ((tl - 500) * (1000 - (tl - 500)) * 2) \div 1000

\* HumanInput: random.uniform(-jitter_factor, jitter_factor) * 5 in FP units,
\* jitter_factor = jitter_amount * 4 * t * (1 - t); j is the draw in hundredths
\* of the range
HI_Jitter(t, j) ==
  LET jitter_factor == (jitter_amount * 4 * t * (1000 - t)) \div 10000
  IN  (j * jitter_factor * 5 * FP) \div 1000000

\* HumanSimulation: random.uniform(-jitter_amount, jitter_amount) * 5 in FP
\* units, jitter_amount = jitter_factor * sin(pi * i / total_points)
HS_Jitter(i, total_points, j) ==
  (j * jitter_amount * SinPi((i * 100) \div total_points) * 5 * FP)
    \div (100 * 100 * 1000)

\* _dynamic_mouse_speed in milliseconds; r is random.uniform(0.9, 1.1) in hundredths
DynamicMouseSpeed(d, point_idx, total_points, r) ==
  LET position == (point_idx * 1000) \div total_points
      speed_factor ==
        IF position < 200 THEN 300 + (position * 35) \div 10
        ELSE IF position > 800 THEN 300 + ((1000 - position) * 35) \div 10
        ELSE 1000
      distance_factor == Min({1000, (d * 1000) \div 500})
  IN  ((((mouse_speed * speed_factor) \div 100) * (800 + distance_factor)) * r) \div 100000

\* a move that stops at the last sample of the curve
FinalPoint_lastsample ==
  ptr

\* the argument of the last moveTo of a move: the target
FinalPoint ==
  mv_to

\* pyautogui.moveTo(x, y, duration): one pointer command
Deliver(p, dur) ==
  /\ ptr' = p
  /\ mv_dur' = dur
  /\ mv_n' = mv_n + 1

\* move_mouse up to the loop: reads the pointer, makes the short move or the
\* direct move (HumanInput with humanize off), or draws the control points
MoveStart(m, to, hum, hiDraws, hsDraws) ==
  /\ mv_pc = "idle"
  /\ mover' = m
  /\ humanize' = hum
  /\ mv_from' = ptr
  /\ mv_to' = to
  /\ mv_i' = 1
  /\ mv_ticks' = 0
  /\ LET d == Distance(ptr, to)
     IN  IF IsTinyMove(d)
         THEN /\ ptr' = to /\ mv_dur' = 100 /\ mv_n' = 1
              /\ mv_points' = <<>>
              /\ mv_pc' = "done"
         ELSE IF m = "HumanInput" /\ ~hum
         THEN /\ ptr' = to /\ mv_dur' = 500 /\ mv_n' = 1
              /\ mv_points' = <<>>
              /\ mv_pc' = "done"
         ELSE /\ mv_points' =
                   IF m = "HumanInput"
                   THEN GenerateBezierPoints(ptr, to, HI_ControlPointsCount(d), hiDraws)
                   ELSE CalculateBezierCurvePoints(ptr, to, HS_ControlPoints(d), hsDraws)
              /\ mv_n' = 0 /\ mv_dur' = 0
              /\ ptr' = ptr
              /\ mv_pc' = "curve"
  /\ UNCHANGED outsideMove

\* one iteration of the timed loop of HumanInput.move_mouse; lag is how many
\* steps the clock is past the time the previous iteration slept to
HI_CurveStep(lag, jx, jy) ==
  /\ mv_pc = "curve" /\ mover = "HumanInput"
  /\ LET steps   == HI_Steps(Distance(mv_from, mv_to))
         elapsed == (IF mv_i = 1 THEN 0 ELSE Max({mv_i, mv_ticks})) + lag
     IN  IF mv_i > steps \/ elapsed >= steps
         THEN /\ mv_pc' = "final"
              /\ UNCHANGED <<ptr, mv_dur, mv_n, mv_i, mv_ticks>>
         ELSE LET t == Ease((elapsed * 1000) \div steps)
                  p == CalculateBezierPoint(mv_points, t)
              IN  /\ Deliver(Pt(p.x + HI_Jitter(t, jx), p.y + HI_Jitter(t, jy)), 0)
                  /\ mv_i' = mv_i + 1
                  /\ mv_ticks' = elapsed
                  /\ mv_pc' = "curve"
  /\ UNCHANGED <<mover, humanize, mv_from, mv_to, mv_points, outsideMove>>

\* one iteration of the loop of HumanSimulation.move_mouse over curve_points[1:]
HS_CurveStep(jx, jy, r) ==
  /\ mv_pc = "curve" /\ mover = "HumanSimulation"
  /\ LET d     == Distance(mv_from, mv_to)
         steps == HS_Steps(d)
         total_points == steps + 1
     IN  IF mv_i > steps
         THEN /\ mv_pc' = "final"
              /\ UNCHANGED <<ptr, mv_dur, mv_n, mv_i>>
         ELSE LET p == CalculateBezierPoint(mv_points, (mv_i * 1000) \div steps)
              IN  /\ Deliver(Pt(p.x + HS_Jitter(mv_i, total_points, jx),
                                p.y + HS_Jitter(mv_i, total_points, jy)),
                             DynamicMouseSpeed(d, mv_i, total_points, r))
                  /\ mv_i' = mv_i + 1
                  /\ mv_pc' = "curve"
  /\ UNCHANGED <<mover, humanize, mv_from, mv_to, mv_points, mv_ticks, outsideMove>>

\* "Ensure we end exactly at the target position"; HumanInput then draws
\* random.random() < 0.3 for the tiny movement after the target
MoveFinal(tail) ==
  /\ mv_pc = "final"
  /\ Deliver(FinalPoint, IF mover = "HumanInput" THEN 0 ELSE 50)
  /\ mv_pc' = IF mover = "HumanInput" /\ tail THEN "tail" ELSE "done"
  /\ UNCHANGED <<mover, humanize, mv_from, mv_to, mv_points, mv_i, mv_ticks, outsideMove>>

\* pyautogui.moveRel(tiny_offset, tiny_offset, duration=0.05)
MoveTail(tiny_offset) ==
  /\ mv_pc = "tail"
  /\ Deliver(Pt(ptr.x + tiny_offset, ptr.y + tiny_offset), 50)
  /\ mv_pc' = "back"
  /\ UNCHANGED <<mover, humanize, mv_from, mv_to, mv_points, mv_i, mv_ticks, outsideMove>>

\* pyautogui.moveTo(x, y, duration=0.05) after the tiny movement
MoveBack ==
  /\ mv_pc = "back"
  /\ Deliver(FinalPoint, 50)
  /\ mv_pc' = "done"
  /\ UNCHANGED <<mover, humanize, mv_from, mv_to, mv_points, mv_i, mv_ticks, outsideMove>>

\* random.uniform(-3, 3) in FP units
TinyOffsets ==
  {0 - (3 * FP - 1), 3 * FP - 1}

JitterDraws ==
  {-100, 100}

\* the control point draws of a move: only the implementation that runs draws
DrawChoices(m) ==
  IF m = "HumanInput"
  THEN [hi : [1..2 -> HI_Draws], hs : {<<>>}]
  ELSE [hi : {<<>>}, hs : [1..2 -> HS_Draws]]

MoveNext ==
  \/ /\ mv_pc = "idle"
     /\ \E m \in {"HumanInput", "HumanSimulation"}, to \in Positions :
          \E hum \in IF m = "HumanInput" THEN BOOLEAN ELSE {TRUE},
             draws \in DrawChoices(m) :
            MoveStart(m, to, hum, draws.hi, draws.hs)
  \/ \E lag \in 0..MaxLag, jx, jy \in JitterDraws : HI_CurveStep(lag, jx, jy)
  \/ \E jx, jy \in JitterDraws, r \in {90, 110} : HS_CurveStep(jx, jy, r)
  \/ \E tail \in BOOLEAN : MoveFinal(tail)
  \/ \E tiny_offset \in TinyOffsets : MoveTail(tiny_offset)
  \/ MoveBack

(***************************************************************************)
(* Typing: type_text of HumanInput (human_input.py) and of HumanSimulation *)
(* (human_simulation.py).  A key action either inserts the character the   *)
(* pressed key gives (with or without shift) at the end of the field or,   *)
(* for backspace, deletes the last character of the field.                 *)
(***************************************************************************)
\* the longest text typed
MaxTextLen ==
  3

\* the characters of the texts typed: a letter, a capital, a shifted special
\* character and the space
TypeChars ==
  {"a", "B", "?", " "}

TypeTexts ==
  UNION {[1..n -> TypeChars] : n \in 1..MaxTextLen}

\* keyboard_layout of both files: key, neighbouring keys
keyboard_layout ==
  <<
    <<"q", <<"w", "a", "s">>>>,
    <<"w", <<"q", "a", "s", "e">>>>,
    <<"e", <<"w", "s", "d", "r">>>>,
    <<"r", <<"e", "d", "f", "t">>>>,
    <<"t", <<"r", "f", "g", "y">>>>,
    <<"y", <<"t", "g", "h", "u">>>>,
    <<"u", <<"y", "h", "j", "i">>>>,
    <<"i", <<"u", "j", "k", "o">>>>,
    <<"o", <<"i", "k", "l", "p">>>>,
    <<"p", <<"o", "l">>>>,
    <<"a", <<"q", "w", "s", "z">>>>,
    <<"s", <<"a", "w", "e", "d", "x", "z">>>>,
    <<"d", <<"s", "e", "r", "f", "c", "x">>>>,
    <<"f", <<"d", "r", "t", "g", "v", "c">>>>,
    <<"g", <<"f", "t", "y", "h", "b", "v">>>>,
    <<"h", <<"g", "y", "u", "j", "n", "b">>>>,
    <<"j", <<"h", "u", "i", "k", "m", "n">>>>,
    <<"k", <<"j", "i", "o", "l", "m">>>>,
    <<"l", <<"k", "o", "p">>>>,
    <<"z", <<"a", "s", "x">>>>,
    <<"x", <<"z", "s", "d", "c">>>>,
    <<"c", <<"x", "d", "f", "v">>>>,
    <<"v", <<"c", "f", "g", "b">>>>,
    <<"b", <<"v", "g", "h", "n">>>>,
    <<"n", <<"b", "h", "j", "m">>>>,
    <<"m", <<"n", "j", "k">>>>
  >>

\* the entry HumanInput._get_keyboard_neighbors has in addition
space_neighbors ==
  <<" ", <<"b", "n", "m", ",">>>>

\* shifted_map of HumanInput._type_single_char: shifted character, its key
shifted_map ==
  <<
    <<"~", "`">>,
    <<"!", "1">>,
    <<"@", "2">>,
    <<"#", "3">>,
    <<"$", "4">>,
    <<"%", "5">>,
    <<"^", "6">>,
    <<"&", "7">>,
    <<"*", "8">>,
    <<"(", "9">>,
    <<")", "0">>,
    <<"_", "-">>,
    <<"+", "=">>,
    <<"{", "[">>,
    <<"}", "]">>,
    <<"|", "\\">>,
    <<":", ";">>,
    <<"\"", "'">>,
    <<"<", ",">>,
    <<">", ".">>,
    <<"?", "/">>
  >>

IsUpper(c) ==
  \E i \in 1..26 : UpperCase[i] = c

UpperChar(c) ==
  IF \E i \in 1..26 : LowerCase[i] = c
  THEN UpperCase[CHOOSE i \in 1..26 : LowerCase[i] = c]
  ELSE c

\* the layout a typer looks the character up in
LayoutOf(who) ==
  IF who = "HumanInput" THEN keyboard_layout \o <<space_neighbors>> ELSE keyboard_layout

InLayout(who, c) ==
  \E i \in 1..Len(LayoutOf(who)) : LayoutOf(who)[i][1] = LowerChar(c)

Neighbors(who, c) ==
  LayoutOf(who)[CHOOSE i \in 1..Len(LayoutOf(who)) : LayoutOf(who)[i][1] = LowerChar(c)][2]

\* the characters the wrong-key typo may type for char: a neighbour with the
\* case of char; for a key outside the layout HumanInput returns char itself
\* and HumanSimulation draws any lower-case letter
WrongChars(who, char) ==
  IF InLayout(who, char)
  THEN {IF IsUpper(char) THEN UpperChar(Neighbors(who, char)[k]) ELSE Neighbors(who, char)[k] :
          k \in 1..Len(Neighbors(who, char))}
  ELSE IF who = "HumanInput" THEN {char}
  ELSE {LowerCase[k] : k \in 1..26}

\* the key HumanInput._type_single_char presses for char, and whether it holds shift
KeyFor(char) ==
  IF IsUpper(char)
  THEN [key |-> LowerChar(char), shift |-> TRUE]
  ELSE IF \E i \in 1..Len(shifted_map) : shifted_map[i][1] = char
  THEN [key |-> shifted_map[CHOOSE i \in 1..Len(shifted_map) : shifted_map[i][1] = char][2],
        shift |-> TRUE]
  ELSE [key |-> char, shift |-> FALSE]

\* the character a key gives on the US layout
KeyGives(k) ==
  IF ~k.shift THEN k.key
  ELSE IF \E i \in 1..Len(shifted_map) : shifted_map[i][2] = k.key
  THEN shifted_map[CHOOSE i \in 1..Len(shifted_map) : shifted_map[i][2] = k.key][1]
  ELSE UpperChar(k.key)

\* _type_single_char: HumanInput presses a key, HumanSimulation calls
\* pyautogui.write(char); f is the field before
TypeSingleChar(who, f, char) ==
  IF who = "HumanInput" THEN Append(f, KeyGives(KeyFor(char))) ELSE Append(f, char)

\* pyautogui.press('backspace')
Backspace(f) ==
  IF Len(f) = 0 THEN f ELSE SubSeq(f, 1, Len(f) - 1)

\* "if typo_type in (1, 2)": the typos that are corrected with a backspace
NeedsBackspace_wrongkeyonly(typo_type) ==
  typo_type = 1

NeedsBackspace(typo_type) ==
  typo_type \in {1, 2}

\* one iteration of the while loop of type_text; typo_type 0 is no typo,
\* 1 wrong key, 2 double key, 3 missed key; wrong_char is used by typo 1
TypeStep(typo_type, wrong_char) ==
  /\ ty_pc = "typing"
  /\ ty_i < Len(ty_text)
  /\ typo_type # 0 => simulate_typos
  /\ LET char == ty_text[ty_i + 1]
         \* after the typo itself
         f1 == CASE typo_type = 1 -> TypeSingleChar(typer, field, wrong_char)
                 [] typo_type = 2 -> TypeSingleChar(typer, TypeSingleChar(typer, field, char), char)
                 [] OTHER -> field
         i1 == IF typo_type = 2 THEN ty_i + 1 ELSE ty_i
         \* after the correction
         f2 == IF typo_type # 0 /\ NeedsBackspace(typo_type) THEN Backspace(f1) ELSE f1
         f3 == IF typo_type = 0 THEN TypeSingleChar(typer, field, char)
               ELSE IF i1 < Len(ty_text) THEN TypeSingleChar(typer, f2, ty_text[i1 + 1])
               ELSE f2
     IN  /\ field' = f3
         /\ ty_i' = i1 + 1
         /\ ty_typos' = IF typo_type = 0 THEN ty_typos ELSE ty_typos \cup {typo_type}
         /\ ty_last' = typo_type
         /\ ty_pc' = IF i1 + 1 < Len(ty_text) THEN "typing" ELSE "done"
  /\ UNCHANGED <<typer, ty_text, simulate_typos, outsideType>>

TypeNext ==
  \E typo_type \in 0..3 :
    \E wrong_char \in IF typo_type = 1 /\ ty_pc = "typing" /\ ty_i < Len(ty_text)
                      THEN WrongChars(typer, ty_text[ty_i + 1]) ELSE {" "} :
      TypeStep(typo_type, wrong_char)

(***************************************************************************)
(* QwenVLProcessor (qwen_processor.py): construction and loading of the    *)
(* model                                                                   *)
(***************************************************************************)
\* constructions and calls in one run
MaxConstructs ==
  3

MaxQwCalls ==
  4

\* the methods that go through _process_with_model
QwOps ==
  {"detect_ui_elements", "detect_captcha", "extract_response_text"}

\* QwenVLProcessor(...): __new__ makes the object only when _instance is None
\* and returns _instance; Python then runs __init__ on the object returned,
\* which sets model and tokenizer to None and _model_loaded to False
QwConstruct ==
  /\ qw_constructs < MaxConstructs
  /\ qw_constructs' = qw_constructs + 1
  /\ qw_objects' = IF qw_instance = 0 THEN qw_objects + 1 ELSE qw_objects
  /\ qw_instance' = IF qw_instance = 0 THEN qw_objects + 1 ELSE qw_instance
  /\ qw_refs' = qw_refs \cup {qw_instance'}
  /\ qw_model_loaded' = FALSE
  /\ qw_last' = "construct"
  /\ UNCHANGED <<qw_loads, qw_calls, outsideQw>>

\* a call that reaches _process_with_model, line 209: load_model runs when
\* _model_loaded is False; loadOk tells whether from_pretrained succeeds
QwCall(op, loadOk) ==
  /\ qw_instance # 0
  /\ qw_calls < MaxQwCalls
  /\ op \in QwOps
  /\ qw_calls' = qw_calls + 1
  /\ qw_last' = op
  /\ IF qw_model_loaded
     THEN UNCHANGED <<qw_model_loaded, qw_loads>>
     ELSE /\ qw_model_loaded' = loadOk
          /\ qw_loads' = IF loadOk THEN qw_loads + 1 ELSE qw_loads
  /\ UNCHANGED <<qw_instance, qw_objects, qw_refs, qw_constructs, outsideQw>>

QwNext ==
  \/ QwConstruct
  \/ \E op \in QwOps, loadOk \in BOOLEAN : QwCall(op, loadOk)

(***************************************************************************)
(* The ask command (cli.py): the retry loop around the send-and-extract    *)
(* script                                                                  *)
(***************************************************************************)
\* the largest --max-attempts tried
MaxAttempts ==
  3

\* time.sleep(2) before the next attempt
CLI_RETRY_SLEEP ==
  2

\* what the script prints when it found no object
O_Braces ==
  <<"{", "}">>

O_BracesLine ==
  <<"{", "}", "\n">>

O_Blank ==
  <<" ", "\n">>

\* what the script prints with --all when it found no object
O_List ==
  <<"[", "]", "\n">>

O_Answer ==
  <<"{", "\"", "a", "n", "s", "w", "e", "r", "\"", ":", " ", "\"", "P", "h",
    "o", "e", "n", "i", "x", "\"", "}", "\n">>

\* result.stdout of a run of the script that exits with status 0
ScriptOutputs ==
  {<<>>, O_Blank, O_Braces, O_BracesLine, O_List, O_Answer}

\* how one subprocess.run ends: with the output of a script that exited with
\* status 0, or with CalledProcessError, or with TimeoutExpired
ScriptResults ==
  [kind : {"output"}, stdout : ScriptOutputs, stderr : {"none"}]
    \cup [kind : {"script_error"}, stdout : {<<>>},
          stderr : {"Could not find an open tab", "Page HTML was empty", "other"}]
    \cup [kind : {"timeout"}, stdout : {<<>>}, stderr : {"none"}]

\* the message the attempt prints, by the branch of the loop body that prints it
AttemptMessage(r, usable) ==
  IF r.kind = "output" THEN (IF usable THEN "Result from web LLM" ELSE "Empty response received")
  ELSE IF r.kind = "timeout" THEN "Timeout"
  ELSE IF r.stderr = "Could not find an open tab" THEN "No Chrome tab found"
  ELSE IF r.stderr = "Page HTML was empty" THEN "No response received"
  ELSE "AppleScript Error"

\* "if not output or output == '{}'"
IsEmptyResponse_blankonly(output) ==
  output = <<>>

IsEmptyResponse(output) ==
  output = <<>> \/ output = O_Braces

\* the for loop has no iteration left: the function returns without a result
AskLoopEnd ==
  /\ cpc = "loop"
  /\ ~(c_attempt < max_attempts)
  /\ cpc' = "done"
  /\ exit_code' = 0
  /\ UNCHANGED <<max_attempts, c_attempt, c_runs, c_echo, c_slept, c_msgs, outsideCli>>

\* one iteration of the for loop, lines 129-207
AskAttempt(r) ==
  /\ cpc = "loop"
  /\ c_attempt < max_attempts
  /\ r \in ScriptResults
  /\ c_runs' = c_runs + 1
  /\ c_msgs' = Append(c_msgs, AttemptMessage(r, r.kind = "output" /\ ~IsEmptyResponse(Strip(r.stdout))))
  /\ LET output == Strip(r.stdout)
         last   == (c_attempt = max_attempts - 1)
     IN  IF r.kind = "output" /\ ~IsEmptyResponse(output)
         THEN \* typer.echo(output); return
              /\ c_echo' = output
              /\ exit_code' = 0
              /\ cpc' = "done"
              /\ UNCHANGED <<c_attempt, c_slept>>
         ELSE IF last
         THEN \* raise typer.Exit(code=1)
              /\ exit_code' = 1
              /\ cpc' = "done"
              /\ UNCHANGED <<c_attempt, c_echo, c_slept>>
         ELSE /\ c_attempt' = c_attempt + 1
              /\ c_slept' = IF r.kind = "script_error" THEN c_slept
                            ELSE c_slept + CLI_RETRY_SLEEP
              /\ UNCHANGED <<cpc, exit_code, c_echo>>
  /\ UNCHANGED <<max_attempts, outsideCli>>

CliNext ==
  \/ AskLoopEnd
  \/ \E r \in ScriptResults : AskAttempt(r)

(***************************************************************************)
(* The site handlers: UIChatAutomation (ui_automation.py) and              *)
(* VisionAIChatSite (site_vision.py): detect_ui_elements and send_message  *)
(***************************************************************************)
\* the value None of a center that was not found
NoCenter ==
  Pt(0 - 1, 0 - 1)

\* detection calls before a send_message
MaxSiteOps ==
  2

\* the sites _get_site_url knows, and those create_vision_site_handler builds
UISites ==
  {"qwen", "perplexity", "pplx", "claude", "chatgpt"}

VisionSites ==
  {"qwen", "perplexity"}

\* places the localizer reports for the input field and the send button
DetectedInputs ==
  {NoCenter, Pt(ScreenW \div 2, ScreenH - 2), Pt(ScreenW \div 2, ScreenH - 3)}

DetectedButtons ==
  {NoCenter, Pt(ScreenW - 2, ScreenH - 2)}

\* (self.screen_width // 2, int(self.screen_height * 0.9)), lines 168 and 183
FallbackBottomCenter ==
  Pt(ScreenW \div 2, (ScreenH * 9) \div 10)

\* send_message without vision, lines 359-360: int(self.screen_height * 0.41)
FallbackPlaceholder ==
  Pt(ScreenW \div 2, (ScreenH * 41) \div 100)

\* line 377: int(self.screen_width * 0.75)
FallbackSendButton ==
  Pt((ScreenW * 75) \div 100, (ScreenH * 41) \div 100)

\* the sites detect_ui_elements has a fallback position for, lines 166 and 181
HasDetectFallback_qwenonly(site) ==
  site = "qwen"

HasDetectFallback(site) ==
  site \in {"qwen", "perplexity", "pplx"}

\* UIChatAutomation.detect_ui_elements, lines 157-221, with vision enabled:
\* the new input-field center, the new send-button center and the return value
UIDetectResult(dIn, dSend) ==
  LET center == IF dIn = NoCenter /\ HasDetectFallback(site_name)
                THEN FallbackBottomCenter ELSE dIn
  IN  [input |-> center, send |-> dSend, success |-> center # NoCenter]

\* VisionAIChatSite.detect_ui_elements, lines 107-160
VDetectResult(force_refresh, dIn, dSend) ==
  IF ~use_vision
  THEN [input |-> input_center, send |-> send_center, success |-> FALSE, called |-> FALSE]
  ELSE IF ~force_refresh /\ input_center # NoCenter
  THEN [input |-> input_center, send |-> send_center, success |-> TRUE, called |-> FALSE]
  ELSE [input |-> dIn, send |-> dSend, success |-> dIn # NoCenter, called |-> TRUE]

Outcome(dIn) ==
  IF dIn = NoCenter THEN "failed" ELSE "found"

\* a call of UIChatAutomation.detect_ui_elements from initialize,
\* check_login_status or wait_for_captcha_solution (lines 130-131, 321-322)
UIDetectUiElements(dIn, dSend) ==
  /\ h_class = "UIChatAutomation" /\ h_pc = "ready" /\ h_ops < MaxSiteOps
  /\ use_vision
  /\ h_ops' = h_ops + 1
  /\ h_before' = input_center
  /\ h_detect' = Outcome(dIn)
  /\ input_center' = UIDetectResult(dIn, dSend).input
  /\ send_center' = UIDetectResult(dIn, dSend).send
  /\ UNCHANGED <<h_class, site_name, use_vision, h_pc, h_acts, outsideSite>>

\* a call of VisionAIChatSite.detect_ui_elements from run_automation
\* (vision_main.py lines 250 and 262), is_logged_in or is_responding
VDetectUiElements(force_refresh, dIn, dSend) ==
  /\ h_class = "VisionAIChatSite" /\ h_pc = "ready" /\ h_ops < MaxSiteOps
  /\ h_ops' = h_ops + 1
  /\ h_before' = input_center
  /\ LET res == VDetectResult(force_refresh, dIn, dSend)
     IN  /\ h_detect' = IF res.called THEN Outcome(dIn) ELSE "none"
         /\ input_center' = res.input
         /\ send_center' = res.send
  /\ UNCHANGED <<h_class, site_name, use_vision, h_pc, h_acts, outsideSite>>

\* UIChatAutomation.send_message, lines 345-397: finding the input field
UISendLocate(dIn, dSend) ==
  /\ h_class = "UIChatAutomation" /\ h_pc = "ready"
  /\ h_ops' = h_ops + 1
  /\ h_before' = input_center
  /\ h_acts' = <<>>
  /\ IF input_center # NoCenter
     THEN /\ h_detect' = "none"
          /\ h_pc' = "located"
          /\ UNCHANGED <<input_center, send_center>>
     ELSE IF use_vision
     THEN /\ h_detect' = Outcome(dIn)
          /\ input_center' = UIDetectResult(dIn, dSend).input
          /\ send_center' = UIDetectResult(dIn, dSend).send
          /\ h_pc' = IF UIDetectResult(dIn, dSend).success THEN "located" ELSE "aborted"
     ELSE /\ h_detect' = "none"
          /\ IF site_name = "qwen"
             THEN /\ input_center' = FallbackPlaceholder
                  /\ send_center' = FallbackSendButton
                  /\ h_pc' = "located"
             ELSE /\ h_pc' = "aborted"
                  /\ UNCHANGED <<input_center, send_center>>
  /\ UNCHANGED <<h_class, site_name, use_vision, outsideSite>>

\* VisionAIChatSite.send_message, lines 235-238
VSendLocate(dIn, dSend) ==
  /\ h_class = "VisionAIChatSite" /\ h_pc = "ready"
  /\ h_ops' = h_ops + 1
  /\ h_before' = input_center
  /\ h_acts' = <<>>
  /\ LET res == VDetectResult(FALSE, dIn, dSend)
     IN  /\ h_detect' = IF res.called THEN Outcome(dIn) ELSE "none"
         /\ input_center' = res.input
         /\ send_center' = res.send
         /\ h_pc' = IF res.success THEN "located" ELSE "aborted"
  /\ UNCHANGED <<h_class, site_name, use_vision, outsideSite>>

\* move_mouse to the input field and click (ui_automation.py lines 402-404,
\* with the clearing of lines 409-419 for qwen; site_vision.py lines 241-243)
SendClick ==
  /\ h_pc = "located"
  /\ h_pc' = "clicked"
  /\ h_acts' = h_acts \o <<"move_to_input", "click">>
                \o (IF h_class = "UIChatAutomation" /\ site_name = "qwen"
                    THEN <<"clear">> ELSE <<>>)
  /\ UNCHANGED <<h_class, site_name, use_vision, input_center, send_center,
                 h_detect, h_before, h_ops, outsideSite>>

\* type_text, or paste_text (ui_automation.py lines 425-430, site_vision.py line 247)
SendType ==
  /\ h_pc = "clicked"
  /\ h_pc' = "typed"
  /\ h_acts' = Append(h_acts, IF h_class = "UIChatAutomation" /\ site_name # "qwen"
                              THEN "paste_text" ELSE "type_text")
  /\ UNCHANGED <<h_class, site_name, use_vision, input_center, send_center,
                 h_detect, h_before, h_ops, outsideSite>>

\* the send button, or the Enter key (ui_automation.py lines 441-448,
\* site_vision.py lines 251-257); send_message returns True
SendSubmit ==
  /\ h_pc = "typed"
  /\ h_pc' = "sent"
  /\ h_acts' = h_acts \o (IF send_center # NoCenter
                          THEN <<"move_to_send_button", "click">> ELSE <<"press_enter">>)
  /\ UNCHANGED <<h_class, site_name, use_vision, input_center, send_center,
                 h_detect, h_before, h_ops, outsideSite>>

\* get_response: max_wait_time = 60
GET_MAX_WAIT ==
  60

\* random.uniform(1.0, 3.0) between two checks, in whole seconds
WaitSleeps ==
  {1, 2, 3}

\* is_responding / is_ai_responding for a site that is generating or not:
\* every implementation ends in "return False" (site_vision.py lines 291, 397
\* and 421; ui_automation.py line 494, also when the click raises)
IsResponding(generating) ==
  FALSE

\* what is_responding asks of the input simulator: VisionAIChatSite clicks the
\* input field (lines 283-284); UIChatAutomation indexes the dictionary
\* ui_elements["input_field"] with 0, which raises before anything is moved
RespondingActs ==
  IF h_class = "VisionAIChatSite" THEN <<"move_to_input", "click">> ELSE <<>>

\* get_response: one evaluation of the loop condition and, when it holds, the
\* loop body (site_vision.py lines 306-318, ui_automation.py lines 511-522)
GetResponseWait(generating, sleep) ==
  /\ h_pc \in {"sent", "waiting"}
  /\ generating \in BOOLEAN
  /\ sleep \in WaitSleeps
  /\ g_generating' = generating
  /\ h_acts' = h_acts \o RespondingActs
  /\ IF IsResponding(generating) /\ ~(g_elapsed > GET_MAX_WAIT)
     THEN /\ h_pc' = "waiting"
          /\ g_elapsed' = g_elapsed + sleep
     ELSE /\ h_pc' = "extracting"
          /\ UNCHANGED g_elapsed
  /\ UNCHANGED <<h_class, site_name, use_vision, input_center, send_center,
                 h_detect, h_before, h_ops, g_result, outsideResp>>

\* get_response after the loop (site_vision.py lines 320-366, ui_automation.py
\* lines 524-620): the text of the vision model when it is longer than 10
\* characters, else the clipboard when the response area is known and the
\* clipboard is not empty, else "Failed to extract response"
GetResponseExtract(source) ==
  /\ h_pc = "extracting"
  /\ source \in {"vision", "clipboard", "Failed to extract response"}
  /\ source = "vision" => use_vision
  /\ h_pc' = "returned"
  /\ g_result' = source
  /\ h_acts' = h_acts \o (IF source = "clipboard"
                          THEN <<"move_to_response", "click", "copy", "click_away">>
                          ELSE <<>>)
  /\ UNCHANGED <<h_class, site_name, use_vision, input_center, send_center,
                 h_detect, h_before, h_ops, g_generating, g_elapsed, outsideResp>>

SiteNext ==
  \/ \E dIn \in DetectedInputs, dSend \in DetectedButtons : UIDetectUiElements(dIn, dSend)
  \/ \E f \in BOOLEAN, dIn \in DetectedInputs, dSend \in DetectedButtons :
       VDetectUiElements(f, dIn, dSend)
  \/ \E dIn \in DetectedInputs, dSend \in DetectedButtons : UISendLocate(dIn, dSend)
  \/ \E dIn \in DetectedInputs, dSend \in DetectedButtons : VSendLocate(dIn, dSend)
  \/ SendClick
  \/ SendType
  \/ SendSubmit
  \/ \E generating \in BOOLEAN, sleep \in WaitSleeps : GetResponseWait(generating, sleep)
  \/ \E source \in {"vision", "clipboard", "Failed to extract response"} :
       GetResponseExtract(source)

(***************************************************************************)
(* Specifications                                                          *)
(***************************************************************************)
\* the parts a specification does not exercise stay as constructed
MonitorIdle ==
  /\ impl = "py" /\ readerKind = "constant" /\ constText = Empty
  /\ scriptPos = 1 /\ polling_interval = 5 /\ max_wait_time = MaxWaitTime
  /\ now = 0 /\ last_content = None /\ last_content_time = NoTime
  /\ polls = 0 /\ outcome = "Polling" /\ returned = None
  /\ prevText = None /\ equalRun = 0 /\ seenUsable = FALSE
  /\ lastContent = Empty /\ lastDotCount = 0 /\ stableCount = 0
  /\ mpc = "idle"

DetectorIdle ==
  /\ v_model = "none" /\ q_loaded = FALSE /\ dcalls = 0 /\ lastCall = NoCall

RunIdle ==
  /\ runner = "run_automation" /\ nq = 0 /\ qi = 0 /\ opc = "idle"
  /\ wait_elapsed = 0 /\ inputs = <<>> /\ records = <<>> /\ printed = <<>>
  /\ waitExit = <<>> /\ lastDelay = 0

AskIdle ==
  /\ apc = "idle" /\ attempt = 0 /\ send_runs = 0 /\ ask_result = None /\ ask_saved = None

RespIdle ==
  /\ g_generating = FALSE /\ g_elapsed = 0 /\ g_result = "none"

SiteIdle ==
  /\ h_class = "none" /\ site_name = "none" /\ use_vision = FALSE
  /\ input_center = NoCenter /\ send_center = NoCenter /\ h_pc = "idle"
  /\ h_acts = <<>> /\ h_detect = "none" /\ h_before = NoCenter /\ h_ops = 0

CliIdle ==
  /\ max_attempts = 0 /\ c_attempt = 0 /\ cpc = "idle" /\ exit_code = 0 - 1
  /\ c_runs = 0 /\ c_echo = None /\ c_slept = 0 /\ c_msgs = <<>>

QwIdle ==
  /\ qw_instance = 0 /\ qw_objects = 0 /\ qw_refs = {} /\ qw_model_loaded = FALSE
  /\ qw_loads = 0 /\ qw_constructs = 0 /\ qw_calls = 0 /\ qw_last = "none"

TypeIdle ==
  /\ typer = "HumanInput" /\ ty_text = <<>> /\ simulate_typos = TRUE /\ ty_i = 0
  /\ field = <<>> /\ ty_typos = {} /\ ty_last = 0 /\ ty_pc = "idle"

MoveIdle ==
  /\ mover = "HumanInput" /\ humanize = TRUE /\ ptr = Pixel(0, 0)
  /\ mv_from = Pixel(0, 0) /\ mv_to = Pixel(0, 0) /\ mv_pc = "idle"
  /\ mv_points = <<>> /\ mv_i = 1 /\ mv_ticks = 0 /\ mv_n = 0 /\ mv_dur = 0

ExtractIdle ==
  /\ xpc = "idle" /\ required_fields = <<>> /\ json_objects = <<>>
  /\ all_flag = FALSE /\ stdout_json = NoOutput /\ ncand = 0

MonitorInit ==
  /\ impl \in {"py", "js"}
  /\ readerKind \in {"constant", "changing", "scripted", "arbitrary"}
  /\ impl = "js" => readerKind # "scripted"
  /\ constText \in IF readerKind = "constant" THEN Texts ELSE {Empty}
  /\ scriptPos = 1
  /\ polling_interval \in IF impl = "py" THEN PollIntervals ELSE {1}
  /\ max_wait_time = MaxWaitTime
  /\ now = 0
  /\ last_content = None
  /\ last_content_time = NoTime
  /\ polls = 0
  /\ outcome = "Polling"
  /\ returned = None
  /\ prevText = None
  /\ equalRun = 0
  /\ seenUsable = FALSE
  /\ lastContent = Empty
  /\ lastDotCount = 0
  /\ stableCount = 0
  /\ mpc = IF impl = "py" THEN "polling" ELSE "start"
  /\ response = Empty /\ elements = <<>> /\ DetectorIdle
  /\ RespIdle
  /\ SiteIdle
  /\ CliIdle
  /\ QwIdle
  /\ TypeIdle
  /\ MoveIdle
  /\ ExtractIdle
  /\ RunIdle
  /\ AskIdle

\* a read takes the time of a process launch: with a zero interval the clock
\* still moves on by at least one tick per poll
MinCost ==
  IF polling_interval = 0 THEN 1 ELSE 0

\* failed attempts before the successful one (only an arbitrary reader fails)
FailChoices ==
  IF readerKind = "arbitrary" THEN 0..(max_retries - 1) ELSE {0}

PyPollStep ==
  \E r \in Texts \cup {STILL_GENERATING, Raise}, nFail \in FailChoices,
     cost \in MinCost..MaxCost : PyPoll(r, nFail, cost)

MonitorNext ==
  \/ PyPollStep
  \/ PyTimeout
  \/ \E e \in Texts \cup {NoElement} : JsStart(e)
  \/ \E e \in Texts \cup {NoElement} : JsTick(e)

SpecMonitor ==
  MonitorInit /\ [][MonitorNext]_vars

\* capture_response is a loop of blocking calls in a running process: a read
\* and a sleep return, so the next iteration or the return after the loop is
\* taken whenever it can be
SpecMonitorFair ==
  /\ MonitorInit
  /\ [][MonitorNext]_vars
  /\ WF_vars(PyPollStep)
  /\ WF_vars(PyTimeout)

DetectorInit ==
  /\ MonitorIdle
  /\ RunIdle
  /\ AskIdle
  /\ response \in Responses
  /\ elements \in ElementLists
  /\ DetectorIdle
  /\ RespIdle
  /\ SiteIdle
  /\ CliIdle
  /\ QwIdle
  /\ TypeIdle
  /\ MoveIdle
  /\ ExtractIdle

SpecDetector ==
  DetectorInit /\ [][DetectorNext]_vars

RunInit ==
  /\ MonitorIdle
  /\ AskIdle
  /\ response = Empty /\ elements = <<>> /\ DetectorIdle
  /\ RespIdle
  /\ SiteIdle
  /\ CliIdle
  /\ QwIdle
  /\ TypeIdle
  /\ MoveIdle
  /\ ExtractIdle
  /\ runner \in {"run_automation", "chat_with_random_delay"}
  /\ nq \in 1..MaxQueries
  /\ qi = 0
  /\ opc = "check"
  /\ wait_elapsed = 0
  /\ inputs = [q \in 1..nq |-> {}]
  /\ records = [q \in 1..nq |-> "none"]
  /\ printed = [q \in 1..nq |-> "none"]
  /\ waitExit = [q \in 1..nq |-> "none"]
  /\ lastDelay = 0

SpecRun ==
  RunInit /\ [][RunNext]_vars

\* ask_llm with the default wait_time and polling interval, over readers that
\* give one text, a text that keeps changing, or a text after two empty polls
AskInit ==
  /\ impl = "py"
  /\ readerKind \in {"constant", "changing", "after2"}
  /\ constText \in IF readerKind = "changing" THEN {Empty} ELSE Texts
  /\ scriptPos = 1 /\ polling_interval = 5 /\ max_wait_time = wait_time
  /\ now = 0 /\ last_content = None /\ last_content_time = NoTime
  /\ polls = 0 /\ outcome = "Polling" /\ returned = None
  /\ prevText = None /\ equalRun = 0 /\ seenUsable = FALSE
  /\ lastContent = Empty /\ lastDotCount = 0 /\ stableCount = 0
  /\ mpc = "idle"
  /\ response = Empty /\ elements = <<>> /\ DetectorIdle
  /\ RespIdle
  /\ SiteIdle
  /\ CliIdle
  /\ QwIdle
  /\ TypeIdle
  /\ MoveIdle
  /\ ExtractIdle
  /\ RunIdle
  /\ apc = "start" /\ attempt = 0 /\ send_runs = 0 /\ ask_result = None /\ ask_saved = None

AskNext ==
  \/ \E known, onSite, navOk \in BOOLEAN : AskNavigate(known, onSite, navOk)
  \/ \E failed \in 0..(send_max_retries + 1) : AskSend(failed)
  \/ PyPollStep
  \/ PyTimeout
  \/ \E save_response \in BOOLEAN : AskFinish(save_response)

SpecAsk ==
  AskInit /\ [][AskNext]_vars

\* main of extract_json_from_html.py on a file that could be read
ExtractInit ==
  /\ MonitorIdle
  /\ response = Empty /\ elements = <<>> /\ DetectorIdle
  /\ RespIdle
  /\ SiteIdle
  /\ CliIdle
  /\ QwIdle
  /\ TypeIdle
  /\ MoveIdle
  /\ RunIdle
  /\ AskIdle
  /\ xpc = "pre"
  /\ required_fields \in FieldLists
  /\ json_objects = <<>>
  /\ all_flag \in BOOLEAN
  /\ stdout_json = NoOutput
  /\ ncand = 0

SpecExtract ==
  ExtractInit /\ [][ExtractNext]_vars

\* a move of the pointer from a place on the screen
MoveInit ==
  /\ MonitorIdle
  /\ response = Empty /\ elements = <<>> /\ DetectorIdle
  /\ RespIdle
  /\ SiteIdle
  /\ CliIdle
  /\ QwIdle
  /\ TypeIdle
  /\ RunIdle
  /\ AskIdle
  /\ ExtractIdle
  /\ mover = "HumanInput" /\ humanize = TRUE
  /\ ptr \in Positions
  /\ mv_from = ptr /\ mv_to = ptr /\ mv_pc = "idle"
  /\ mv_points = <<>> /\ mv_i = 1 /\ mv_ticks = 0 /\ mv_n = 0 /\ mv_dur = 0

SpecMove ==
  MoveInit /\ [][MoveNext]_vars

\* type_text on a non-empty text, typed into an empty field
TypeInit ==
  /\ MonitorIdle
  /\ response = Empty /\ elements = <<>> /\ DetectorIdle
  /\ RespIdle
  /\ SiteIdle
  /\ CliIdle
  /\ QwIdle
  /\ RunIdle
  /\ AskIdle
  /\ ExtractIdle
  /\ MoveIdle
  /\ typer \in {"HumanInput", "HumanSimulation"}
  /\ ty_text \in TypeTexts
  /\ simulate_typos \in BOOLEAN
  /\ ty_i = 0 /\ field = <<>> /\ ty_typos = {} /\ ty_last = 0
  /\ ty_pc = "typing"

SpecType ==
  TypeInit /\ [][TypeNext]_vars

\* a process that has not constructed a QwenVLProcessor yet
QwInit ==
  /\ MonitorIdle
  /\ response = Empty /\ elements = <<>> /\ DetectorIdle
  /\ RespIdle
  /\ SiteIdle
  /\ CliIdle
  /\ RunIdle
  /\ AskIdle
  /\ ExtractIdle
  /\ MoveIdle
  /\ TypeIdle
  /\ qw_instance = 0 /\ qw_objects = 0 /\ qw_refs = {} /\ qw_model_loaded = FALSE
  /\ qw_loads = 0 /\ qw_constructs = 0 /\ qw_calls = 0 /\ qw_last = "none"

SpecQwen ==
  QwInit /\ [][QwNext]_vars

\* the ask command with a --max-attempts the option parser accepts
CliInit ==
  /\ MonitorIdle
  /\ response = Empty /\ elements = <<>> /\ DetectorIdle
  /\ RespIdle
  /\ SiteIdle
  /\ RunIdle
  /\ AskIdle
  /\ ExtractIdle
  /\ MoveIdle
  /\ TypeIdle
  /\ QwIdle
  /\ max_attempts \in 0..MaxAttempts
  /\ c_attempt = 0 /\ cpc = "loop" /\ exit_code = 0 - 1
  /\ c_runs = 0 /\ c_echo = None /\ c_slept = 0 /\ c_msgs = <<>>

SpecCli ==
  CliInit /\ [][CliNext]_vars

\* a site handler after its construction: no location is known yet
SiteInit ==
  /\ MonitorIdle
  /\ response = Empty /\ elements = <<>> /\ DetectorIdle
  /\ RespIdle
  /\ RunIdle
  /\ AskIdle
  /\ ExtractIdle
  /\ MoveIdle
  /\ TypeIdle
  /\ QwIdle
  /\ CliIdle
  /\ h_class \in {"UIChatAutomation", "VisionAIChatSite"}
  /\ site_name \in IF h_class = "UIChatAutomation" THEN UISites ELSE VisionSites
  /\ use_vision \in BOOLEAN
  /\ input_center = NoCenter /\ send_center = NoCenter /\ h_pc = "ready"
  /\ h_acts = <<>> /\ h_detect = "none" /\ h_before = NoCenter /\ h_ops = 0

SpecSite ==
  SiteInit /\ [][SiteNext]_vars

(***************************************************************************)
(* Properties of the response stability monitors                           *)
(***************************************************************************)
\* identical reads a monitor needs before it reports completion: three interval
\* ticks in monitorResponseCompletion; in capture_response the read that set
\* last_content and one later equal read
RequiredStableCount ==
  IF impl = "js" THEN JS_STABLE_CHECKS ELSE 2

\* the minimum length a completed text must exceed: 50 in capture_response;
\* monitorResponseCompletion has none of its own, so any non-empty text passes
MinStableLen ==
  IF impl = "js" THEN 0 ELSE MIN_STABLE_LEN

\* C1: a monitor reports Stable only if the text it read was the same on
\* RequiredStableCount polls in a row (polls that read no text aside) and the
\* text is longer than the minimum.
C1_StableOnlyAfterUnchangedRun ==
  outcome = "Stable" =>
    /\ equalRun >= RequiredStableCount
    /\ Len(returned) > MinStableLen

\* C2 applies to a reader that always returns one text longer than the minimum;
\* capture_response has no poll count of its own, its 5 s window meets a count
\* when the interval is at least the window (the default)
C2_Applies ==
  /\ readerKind = "constant"
  /\ Len(constText) > MinStableLen
  /\ impl = "py" => polling_interval >= STABLE_SECONDS

C3_NeverStableTimesOutAtDeadline ==
  (impl = "py" /\ readerKind = "changing") =>
    /\ outcome # "Stable"
    /\ mpc = "done" => (outcome = "TimedOut" /\ now >= max_wait_time)

C3_Witness ==
  /\ impl = "py" /\ readerKind = "changing"
  /\ outcome = "TimedOut" /\ polls >= 3 /\ returned \in ChangingTexts

\* C4: the read sequence STILL_GENERATING, STILL_GENERATING, Paris, Paris, Paris
\* with a zero polling interval ends in Stable("Paris").
C4_ScriptedParisIsStable ==
  (impl = "py" /\ readerKind = "scripted" /\ polling_interval = 0 /\ mpc = "done") =>
    (outcome = "Stable" /\ returned = Paris)

\* C5 as stated: at the timeout the last text is returned when it is longer than
\* the usable minimum, and the error result appears only if no text above that
\* minimum was ever read.
C5_TimeoutErrorOnlyIfNeverUsable ==
  (impl = "py" /\ outcome = "TimedOut") =>
    /\ (prevText # None /\ Len(prevText) > MIN_USABLE_LEN) => returned = prevText
    /\ returned = ErrorText => ~seenUsable

\* C5 amended: at the timeout capture_response returns the last text it read when
\* that text is longer than MIN_USABLE_LEN, and the error result exactly when
\* the last text read (if any) is not longer than that, whatever was read before.
C5_TimeoutReturnsLastUsableText ==
  (impl = "py" /\ outcome = "TimedOut") =>
    /\ (prevText # None /\ Len(prevText) > MIN_USABLE_LEN) => returned = prevText
    /\ returned = ErrorText <=> (prevText = None \/ Len(prevText) <= MIN_USABLE_LEN)

C5_Witness ==
  /\ impl = "py" /\ outcome = "TimedOut"
  /\ returned = PhoenixText /\ prevText = PhoenixText

(***************************************************************************)
(* Properties of the element localizer and the challenge detector          *)
(***************************************************************************)
LocateOps ==
  {"detect_elements", "detect_ui_elements"}

DetectOps ==
  {"detect_captcha", "qwen_detect_captcha"}

\* the elements a locate call was asked for
Requested ==
  IF lastCall.op = "detect_ui_elements" THEN QwenNames ELSE elements

\* C6: a locate call never raises, whatever the model answers and also when
\* loading or calling the model fails: it returns an entry for every requested
\* element, and an entry without parsed coordinates is None; the answer
\* "no valid json here" for "input field" gives None for that element
C6_LocateNeverRaises ==
  lastCall.op \in LocateOps =>
    /\ ~lastCall.raised
    /\ Len(lastCall.locs) = Len(Requested)
    /\ \A i \in 1..Len(lastCall.locs) :
         \/ lastCall.locs[i] = NoneLoc
         \/ lastCall.locs[i].found /\ lastCall.locs[i].x # JNull /\ lastCall.locs[i].y # JNull
    /\ (lastCall.op = "detect_elements" /\ response = R_NoJson)
         => lastCall.locs[1] = NoneLoc

\* the whole response is a JSON object that maps every requested element to
\* {found: true, coordinates: [x, y]}
IsFullAnswer(resp, elems) ==
  LET parsed == JsonLoads(resp)
  IN  /\ parsed.ok
      /\ parsed.val.t = "obj"
      /\ \A i \in 1..Len(elems) :
           /\ HasKey(parsed.val, elems[i])
           /\ Lookup(parsed.val, elems[i]).t = "obj"
           /\ HasKey(Lookup(parsed.val, elems[i]), K_found)
           /\ Lookup(Lookup(parsed.val, elems[i]), K_found) = [t |-> "true"]
           /\ HasKey(Lookup(parsed.val, elems[i]), K_coordinates)
           /\ Lookup(Lookup(parsed.val, elems[i]), K_coordinates).t = "arr"
           /\ Len(Lookup(Lookup(parsed.val, elems[i]), K_coordinates).items) = 2

\* the coordinates the whole-response answer gives for the i-th element
AnswerLoc(resp, elems, i) ==
  LET c == Lookup(Lookup(JsonLoads(resp).val, elems[i]), K_coordinates).items
  IN  Loc(TRUE, c[1], c[2])

\* C7: when the whole response is a valid JSON object mapping every requested
\* element to {found: true, coordinates: [x, y]}, detect_elements returns
\* found with exactly those coordinates for every requested element
C7_WholeJsonAnswerIsReturned ==
  ( /\ lastCall.op = "detect_elements"
    /\ lastCall.fault = "none"
    /\ IsFullAnswer(response, elements) )
  => /\ Len(lastCall.locs) = Len(elements)
     /\ \A i \in 1..Len(elements) :
          lastCall.locs[i] = AnswerLoc(response, elements, i)

\* C8: whenever something throws during a challenge detection call (loading
\* the model, preparing the screenshot, the inference itself), the call
\* returns False and no exception reaches the caller
C8_DetectAbsentWhenInferenceThrows ==
  (lastCall.op \in DetectOps /\ lastCall.fault # "none")
    => ~lastCall.raised /\ ~lastCall.captcha

(***************************************************************************)
(* Properties of the query loop                                            *)
(***************************************************************************)
\* the messages that report a challenge timeout
ChallengeTimeoutMessages ==
  {"CAPTCHA solution timed out, skipping query", "Failed to get past CAPTCHA"}

\* C9: a query whose challenge check reports a challenge waits in the loop and,
\* in a run that goes on, leaves it only because the detector reported no
\* challenge or the timeout elapsed; when the timeout elapsed, no input of any
\* kind (pointer move, click, typing, submit) was delivered for that query and
\* the query is reported as failed by challenge timeout
C9_ChallengeTimeoutDeliversNoInput ==
  \A q \in 1..nq :
    /\ opc # "crashed" => waitExit[q] \in {"none", "waiting", "absent", "timeout"}
    /\ waitExit[q] = "timeout" =>
         /\ inputs[q] = {}
         /\ printed[q] \in ChallengeTimeoutMessages
         /\ records[q] = "none"

\* C10: when the run has reached its end, every query of the input list has an
\* outcome record that was handed to save_response (or appended to the
\* returned responses), whatever path the query took (challenge timeout,
\* failed send, response timeout, capture)
C10_EveryQueryHasOutcomeRecord ==
  opc = "done" => \A q \in 1..nq : records[q] # "none"

(***************************************************************************)
(* Properties of ask_llm                                                   *)
(***************************************************************************)
W_Phoenix ==
  <<"P", "h", "o", "e", "n", "i", "x">>

\* the reader of the scenario: nothing on the first two polls, then the
\* answer about Arizona on every later poll
PhoenixScenario ==
  readerKind = "after2" /\ constText = PhoenixText

\* ask_llm has come back after capture_response ran
AskCaptured ==
  apc = "done" /\ mpc = "done"

CompletedResult(text) ==
  Strip(text)

\* C12: when capture_response has timed out after it had read some text,
\* ask_llm still hands that text to its caller, and what it returns is marked
\* as timed out: it differs from what a completed capture of the same text gives
C12_TimedOutIsMarkedAndTextSurfaced ==
  (AskCaptured /\ outcome = "TimedOut" /\ last_content \notin {None, Empty}) =>
    /\ Contains(last_content, ask_result)
    /\ ask_result # CompletedResult(last_content)

(***************************************************************************)
(* Properties of extract_json_from_html.py                                 *)
(***************************************************************************)
\* the object has every required field, each with a non-empty string value
HasRequiredFields(obj) ==
  /\ obj.t = "obj"
  /\ \A i \in 1..Len(required_fields) :
       \E m \in 1..Len(obj.kv) :
         /\ obj.kv[m].k = required_fields[i]
         /\ obj.kv[m].v.t = "str"
         /\ Len(obj.kv[m].v.s) > 0

\* C13: every object extract_json_from_html returns has every required field
\* with a non-empty string value, and main without --all prints the last of
\* them, or {} when there is none
C13_PrintedObjectHasRequiredFields ==
  /\ \A i \in 1..Len(json_objects) : HasRequiredFields(json_objects[i])
  /\ (xpc = "done" /\ ~all_flag) =>
        /\ stdout_json = IF json_objects = <<>> THEN V_EmptyObj
                         ELSE json_objects[Len(json_objects)]
        /\ stdout_json = V_EmptyObj \/ HasRequiredFields(stdout_json)
  /\ (xpc = "done" /\ all_flag) =>
        /\ stdout_json.t = "arr"
        /\ \A i \in 1..Len(stdout_json.items) : HasRequiredFields(stdout_json.items[i])

C13_Witness ==
  /\ xpc = "done" /\ ~all_flag
  /\ Len(json_objects) >= 2
  /\ json_objects[1] # json_objects[Len(json_objects)]
  /\ stdout_json = json_objects[Len(json_objects)]
  /\ ncand = MaxCands

(***************************************************************************)
(* Properties of the pointer motion                                        *)
(***************************************************************************)
\* C14: for every move with from different from to, the pointer is at from
\* until the move delivers its first position, and when the move is over the
\* last position delivered is exactly the target, whatever the control points,
\* the jitter, the early exit of the timed loop and the tail after the target.
C14_MoveStartsAtFromEndsAtTarget ==
  (mv_pc # "idle" /\ mv_from # mv_to) =>
    /\ mv_n = 0 => ptr = mv_from
    /\ mv_pc = "done" => (mv_n >= 1 /\ ptr = mv_to)

\* a HumanInput move along a curve that left the loop early and made the tiny
\* movement after the target
C14_Witness ==
  /\ mover = "HumanInput" /\ mv_pc = "done" /\ mv_from # mv_to
  /\ mv_points # <<>> /\ mv_i < 20 /\ mv_n = mv_i + 2 /\ mv_dur = 50
  /\ ptr = mv_to

\* 0 <= x < screen width and 0 <= y < screen height for the pixel the pointer
\* is put on: a float above -1 still lands on pixel 0 when its fraction is
\* dropped, so only a whole pixel outside counts as outside
InBounds(p) ==
  /\ 0 - FP < p.x /\ p.x < ScreenW * FP
  /\ 0 - FP < p.y /\ p.y < ScreenH * FP

\* C15: every pointer position delivered during a move lies inside the screen
\* bounds, for every from and to inside the screen.
C15_DeliveredPositionsInsideScreen ==
  InBounds(ptr)

\* C16: a move whose target is the current pointer position makes no curve: it
\* is over after a single direct move to the target with the fixed duration of
\* 0.1 s, with no control points, no jitter and no tail.
C16_ZeroDistanceMoveIsSingleDirectMove ==
  (mv_pc # "idle" /\ mv_from = mv_to) =>
    /\ mv_pc = "done"
    /\ mv_points = <<>>
    /\ mv_n = 1
    /\ mv_dur = 100
    /\ ptr = mv_to

C16_Witness ==
  /\ mover = "HumanSimulation" /\ mv_pc = "done" /\ mv_from = mv_to
  /\ mv_to = Pixel(0, ScreenH - 1) /\ mv_n = 1 /\ ptr = mv_to

(***************************************************************************)
(* Properties of the typing                                                *)
(***************************************************************************)
\* C17: for every non-empty text and every outcome of the typo decisions (no
\* typo, wrong key, double key, missed key, at any position, the last
\* character included), the key actions of type_text applied in order to an
\* empty field leave exactly the text in the field.
C17_TypedFieldEqualsText ==
  ty_pc = "done" => field = ty_text

\* a text of full length typed with all three kinds of typo, the last
\* character with the double key
C17_Witness ==
  /\ ty_pc = "done" /\ Len(ty_text) = MaxTextLen /\ field = ty_text
  /\ ty_typos = {1, 2, 3} /\ ty_last = 2

(***************************************************************************)
(* Properties of the order of the transactions                             *)
(***************************************************************************)
\* C18: the orchestrator executes one transaction fully before it starts the
\* next.  An input is delivered only for the query the loop is at, the
\* response of a query that was sent has been read before any input of the
\* next query is delivered, and whenever an input is delivered or a response
\* is read for a query, no later query has had any input yet.
C18_TransactionsDoNotInterleave ==
  /\ [](\A q \in 1..nq :
         inputs[q] # {} =>
           /\ q <= qi + 1
           /\ (q > 1 /\ SendInputs \subseteq inputs[q - 1]) => records[q - 1] # "none")
  /\ [][\A q \in 1..nq :
          (inputs'[q] # inputs[q] \/ records'[q] # records[q])
            => \A p \in (q + 1)..nq : inputs'[p] = {}]_vars

\* two messages sent one after the other, both responses read, with idle
\* pointer movement during the delay between them
C18_Witness ==
  /\ runner = "chat_with_random_delay" /\ nq = 2 /\ opc = "done"
  /\ inputs[1] = SendInputs \cup {"scroll"} /\ inputs[2] = SendInputs
  /\ records[1] # "none" /\ records[2] # "none"

(***************************************************************************)
(* Termination of the polling loop                                         *)
(***************************************************************************)
\* the longest one iteration of the loop of capture_response takes: a read,
\* the sleeps between failed attempts, and the sleep before the next check
LongestIteration ==
  MaxCost + (max_retries - 1) + polling_interval

\* C19: the polling loop of capture_response always terminates once its
\* deadline is reached, for every behaviour of the reader: the loop is never
\* running later than one iteration past max_wait_time, capture_response
\* eventually returns, a return by the timeout path is not before
\* max_wait_time, and after the return no further poll is made.
C19_PollingLoopTerminates ==
  /\ []((impl = "py" /\ mpc = "polling") => now < max_wait_time + LongestIteration)
  /\ []((impl = "py" /\ mpc = "done" /\ outcome = "TimedOut") => now >= max_wait_time)
  /\ (impl = "py" /\ mpc = "polling") ~> (mpc = "done" /\ outcome # "Polling")
  /\ [][(impl = "py" /\ mpc = "done") => (mpc' = "done" /\ polls' = polls)]_vars

\* a reader that raised on every poll until the deadline
C19_Witness ==
  /\ impl = "py" /\ readerKind = "arbitrary" /\ mpc = "done"
  /\ outcome = "TimedOut" /\ prevText = None /\ polls >= 2
  /\ now >= max_wait_time /\ returned = ErrorText

(***************************************************************************)
(* Properties of the QwenVLProcessor singleton                             *)
(***************************************************************************)
\* C20: QwenVLProcessor is a singleton that loads the model only once: with no
\* unload_model, all constructions return the same instance and the model
\* and tokenizer are loaded from disk at most once.
C20_SingletonLoadsModelOnce ==
  /\ Cardinality(qw_refs) <= 1
  /\ qw_loads <= 1

(***************************************************************************)
(* Properties of the ask command                                           *)
(***************************************************************************)
\* C21: the ask command runs the script at most max_attempts times; it stops
\* at the first attempt whose output is non-empty and not "{}", prints that
\* output and returns success; if all max_attempts attempts fail (empty
\* output, script error or timeout) it exits with code 1.
C21_AskRetriesThenExitsOne ==
  /\ c_runs <= max_attempts
  /\ c_echo # None => (cpc = "done" /\ exit_code = 0 /\ c_msgs[Len(c_msgs)] = "Result from web LLM"
                        /\ c_echo # <<>> /\ c_echo # O_Braces)
  /\ cpc = "done" =>
       /\ exit_code \in {0, 1}
       /\ exit_code = 0 <=> c_echo # None
       /\ exit_code = 1 => c_runs = max_attempts

(***************************************************************************)
(* Properties of the still-generating sentinel                             *)
(***************************************************************************)
\* a poll of capture_response in which the reader returned the sentinel
SentinelPoll ==
  \E nFail \in FailChoices, cost \in MinCost..MaxCost :
     PyPoll(STILL_GENERATING, nFail, cost)

\* C22: a still-generating sentinel returned by the reader resets the stable
\* counter (the stable run measured before the sentinel is discarded: after
\* the poll no stable run is being measured, or one that starts no earlier
\* than this poll) and leaves the last-seen text unchanged.
C22_SentinelResetsStableRunKeepsText ==
  [][SentinelPoll =>
       /\ last_content' = last_content
       /\ (last_content_time' = NoTime \/ last_content_time' >= now)]_vars

(***************************************************************************)
(* Properties of the layered parsing of the localization response          *)
(***************************************************************************)
\* the text from the first opening brace to the last closing brace, if any
BraceSpan(resp) ==
  LET json_start == Find(<<"{">>, resp)
      json_end == RFind(<<"}">>, resp) + 1
  IN  IF json_start >= 0 /\ json_end > json_start
      THEN <<Slice(resp, json_start, json_end)>> ELSE <<>>

\* the longest brace-delimited match is missing or is not valid JSON
LargestMatchFails(resp) ==
  BraceMatches(resp, 1) = <<>> \/ ~JsonLoads(Longest(BraceMatches(resp, 1))).ok

\* the first-brace-to-last-brace span is missing or is not valid JSON
BraceSpanFails(resp) ==
  BraceSpan(resp) = <<>> \/ ~JsonLoads(BraceSpan(resp)[1]).ok

\* what a parsed object says about the elements
LocsOf(dr, elems) ==
  [i \in 1..Len(elems) |-> ProcessElement(dr, elems[i])]

\* C23: parsing tries the tiers in order until one succeeds.  When the largest
\* brace-delimited substring is not valid JSON but the span from the first
\* opening to the last closing brace is, the locations are those of that
\* span; when no tier yields valid JSON, an element that is mentioned in the
\* raw text with a (number, number) pair in the window after the mention is
\* reported found with that pair as its coordinates.
C23_ParsingFallsThroughTheTiers ==
  (lastCall.op = "detect_elements" /\ lastCall.fault = "none") =>
    /\ ( /\ ~JsonLoads(response).ok
          /\ LargestMatchFails(response)
          /\ ~BraceSpanFails(response)
          /\ JsonLoads(BraceSpan(response)[1]).val.t = "obj"
          /\ \A i \in 1..Len(elements) :
               HasKey(JsonLoads(BraceSpan(response)[1]).val, elements[i])
                 => Lookup(JsonLoads(BraceSpan(response)[1]).val, elements[i]).t = "obj" )
        => lastCall.locs = LocsOf(JsonLoads(BraceSpan(response)[1]).val, elements)
    /\ ( /\ ~JsonLoads(response).ok
          /\ LargestMatchFails(response)
          /\ BraceSpanFails(response) )
        => lastCall.locs = LocsOf(ManualResults(response, elements), elements)

(***************************************************************************)
(* Properties of the classification of the challenge answer                *)
(***************************************************************************)
\* the words detect_captcha looks for
ChallengeKeywords ==
  {W_yes, W_captcha, W_verification, W_robot, W_human, W_challenge}

\* the number of leading characters detect_captcha looks for "yes" in
AFFIRM_PREFIX ==
  20

\* one of the words occurs within the leading characters of the answer
KeywordInPrefix(resp) ==
  \E w \in ChallengeKeywords : Contains(w, Slice(Lower(resp), 0, AFFIRM_PREFIX))

\* C24: the challenge detector classifies the answer as Present only if one
\* of the fixed challenge keywords occurs within the first 20 characters of
\* the response; a response whose first 20 characters contain none of the
\* keywords is classified Absent, whatever appears later in the response.
C24_PresentOnlyByKeywordInFirst20 ==
  (lastCall.op = "detect_captcha" /\ lastCall.fault = "none" /\ ~KeywordInPrefix(response))
    => ~lastCall.captcha

(***************************************************************************)
(* Properties of the site handlers                                         *)
(***************************************************************************)
\* send_message was entered with an unknown input-field location and the
\* localizer then failed to find the input field
SendWithFailedLocalizer ==
  /\ h_pc \in {"located", "clicked", "typed", "sent", "aborted"}
  /\ h_before = NoCenter
  /\ h_detect = "failed"

\* C25: when the input-field location is unknown and the element localizer
\* fails to find it, sending does not abort: a fallback location is
\* substituted and send_message goes on to move, click, type and submit, for
\* every supported site.
C25_FailedLocalizerFallsBackAndSends ==
  SendWithFailedLocalizer =>
    /\ h_pc # "aborted"
    /\ input_center # NoCenter
    /\ h_pc = "sent" =>
         /\ Len(h_acts) >= 4
         /\ SubSeq(h_acts, 1, 2) = <<"move_to_input", "click">>
         /\ \E i \in 1..Len(h_acts) : h_acts[i] \in {"type_text", "paste_text"}
         /\ h_acts[Len(h_acts)] \in {"click", "press_enter"}

\* C28: once the input-field location is known, no later detection call
\* leaves it unknown: a re-detection that fails (a forced refresh, or the
\* re-detection run after a CAPTCHA is solved) keeps the previously known
\* location instead of overwriting it with None, for every site.
C28_FailedRedetectionKeepsKnownLocation ==
  h_before # NoCenter =>
    /\ input_center # NoCenter
    /\ h_detect = "failed" => input_center = h_before

(***************************************************************************)
(* Properties of the send retries of ask_llm                               *)
(***************************************************************************)
\* C26 as stated: a failed send is retried once and then is fatal: for one
\* query the send action is attempted at most twice in total, and after the
\* second failure the transaction fails without reading a response.
C26_SendRetriedOnceThenFatal ==
  /\ apc = "send" => attempt <= 1
  /\ send_runs <= 1 + 1
  /\ ask_result = ErrSend => (mpc = "idle" /\ polls = 0)

\* C26, amended: ask_llm retries a failed send up to retries (2) times and
\* then the failure is fatal: for one query send_message_to_browser is called
\* at most retries + 1 = 3 times, each call running the send script at most
\* max_retries + 1 = 3 times, and after the last failure the transaction
\* fails with the send error without reading or saving a response.
C26_SendRetriedThenFatal ==
  /\ attempt <= retries
  /\ send_runs <= (attempt + 1) * (send_max_retries + 1)
  /\ apc = "send" => send_runs = attempt * (send_max_retries + 1)
  /\ ask_result = ErrSend =>
       /\ apc = "done" /\ attempt = retries
       /\ send_runs = (retries + 1) * (send_max_retries + 1)
       /\ mpc = "idle" /\ polls = 0 /\ returned = None /\ ask_saved = None

\* every send failed
C26_Witness ==
  apc = "done" /\ ask_result = ErrSend /\ send_runs = (retries + 1) * (send_max_retries + 1)

(***************************************************************************)
(* Properties of the inter-query delay                                     *)
(***************************************************************************)
\* the range the delay of the running orchestrator is drawn from
DelayRange ==
  IF runner = "run_automation" THEN delay_min..delay_max
  ELSE chat_delay_min..chat_delay_max

\* C27: between the end of one query's transaction and the start of the next
\* query's, the orchestrator waits a delay drawn from [delay_min, delay_max]:
\* every step that moves on from a query that is not the last is the delay
\* step and its delay lies in the range, whatever the outcome of the query;
\* moving on from the last query draws no delay.
C27_DelayBetweenQueries ==
  [][qi' = qi + 1 =>
       IF qi < nq - 1
       THEN opc = "delay" /\ lastDelay' \in DelayRange
       ELSE lastDelay' = lastDelay]_vars

(***************************************************************************)
(* Properties of the exit status of the ask command                        *)
(***************************************************************************)
\* some attempt produced a usable result and it was printed
ResultPrinted ==
  /\ c_echo # None /\ ~IsEmptyResponse(c_echo)
  /\ \E i \in 1..Len(c_msgs) : c_msgs[i] = "Result from web LLM"

\* C29: for every value of max_attempts (0 included) and every sequence of
\* attempt outcomes, the ask command ends with exit status 0 only if some
\* attempt produced a non-empty result other than "{}" and that result was
\* printed; otherwise it ends with a non-zero exit status.
C29_ExitZeroOnlyWithPrintedResult ==
  cpc = "done" => (IF ResultPrinted THEN exit_code = 0 ELSE exit_code > 0)

(***************************************************************************)
(* Properties of the wait for the response in get_response                 *)
(***************************************************************************)
\* C30: get_response does not start extracting the response text while the
\* site is still generating its answer, unless the 60-second maximum wait has
\* elapsed: as long as generation is in progress and the deadline has not
\* passed, it stays in the wait loop.
C30_NoExtractionWhileGenerating ==
  h_pc \in {"extracting", "returned"} => (~g_generating \/ g_elapsed > GET_MAX_WAIT)

====
